---- MODULE Spec2Model ----
(***************************************************************************)
(* Regent: the agent orchestration engine of src/src/agent.py together     *)
(* with the Agent State store of src/src/agent_env.py.                     *)
(*                                                                         *)
(* Time is counted in clock ticks since the epoch: created_utc, the        *)
(* watermark and the clock are integers, and an hour is TicksPerHour ticks.*)
(* The producer thread (handle_submissions) and the main thread            *)
(* (run_agent) interleave; pc is the position of the main thread.          *)
(***************************************************************************)
EXTENDS Integers, Sequences, FiniteSets, TLC

\* ---------------------------------------------------------------- bounds
MaxTick == 3          \* the clock runs from 0 to MaxTick
MaxQueue == 1         \* cap on the length of the unbounded submission_queue
NumIds == 2           \* post identifiers of the feed are 1..NumIds
TrimPosts == 9        \* number of posts of the feed in the trimming scenario
MaxAppends == 5       \* append_to_history calls in the history scenario
NumComments == 1      \* identifiers of inbox comments are 1..NumComments
MaxHistoryLength == 2 \* max_history_length is drawn from 0..MaxHistoryLength
MaxArgs == 4          \* action.parameters holds 0..MaxArgs strings
MaxSeconds == 90061   \* seconds_to_hms is called on durations up to 25h 1m 1s
MaxNodes == 4         \* a submission has 0..MaxNodes comments

\* ------------------------------------------------------ program constants
max_streamed_submissions == 8
TicksPerHour == 2     \* timedelta(hours=1) in clock ticks

VARIABLES
    cfg,                    \* agent_config, test_mode and the scenario: fixed after Init
    now,                    \* datetime.now(timezone.utc)
    submission_queue,       \* agent.py:16
    history,                \* env.state.history
    streamed_submissions,   \* env.state.streamed_submissions (the pending list)
    until_timestamp,        \* env.state.streamed_submissions_until_timestamp
    state_file,             \* the file named env.state_filename
    inbox,                  \* unread inbox comments on the platform
    comments,               \* handle_new_event's local list of inbox comments
    pc,                     \* position of the main thread
    producer,               \* state of the handle_submissions thread
    obs                     \* observations of the last drain / react phase / call

vars == << cfg, now, submission_queue, history, streamed_submissions,
           until_timestamp, state_file, inbox, comments, pc, producer, obs >>

state_vars == << history, streamed_submissions, until_timestamp >>

\* -------------------------------------------------------------- helpers
Last(s) == s[Len(s)]
Front(s) == SubSeq(s, 1, Len(s) - 1)
Range(s) == { s[i] : i \in 1..Len(s) }
Max(a, b) == IF a >= b THEN a ELSE b
Min(a, b) == IF a <= b THEN a ELSE b

\* Python's s[k:] (a negative k counts from the end; -0 is 0)
py_slice_from(s, k) ==
    LET start == IF k < 0 THEN Max(Len(s) + k, 0) ELSE Min(k, Len(s))
    IN  SubSeq(s, start + 1, Len(s))

\* AgentState(history=[], streamed_submissions=[], ...fromtimestamp(0))
EmptyState == [ history |-> << >>, streamed_submissions |-> << >>, until_timestamp |-> 0 ]

CurrentState == [ history |-> history, streamed_submissions |-> streamed_submissions,
                  until_timestamp |-> until_timestamp ]

NoWrite == [ kind |-> "none", id |-> 0 ]

\* What the last step of the main thread did: for a drain the time of
\* filtering, the records that survived the age filter and the branches taken
\* (the log lines "Skipping post older than", "Skipping already streamed post"
\* and "Removing post older than"); for the react phase the pending list it
\* started from, the events it handled and how it ended; the platform write of
\* the step; the inputs of the round-trip and history scenarios; the input
\* and the output of the last call of the command scenarios; and whether the
\* step executed an action (a reply or a post creation), the key of the
\* action's outcome map and the platform write that raised; and the prompts of
\* the step that the operator answered with yes.
NoDrain == [ just_drained |-> FALSE, filter_now |-> 0, survivors |-> << >>,
             skipped_stale |-> FALSE, skipped_already |-> FALSE,
             removed_old |-> FALSE, consumed |-> << >> ]

NoCall == [ input |-> << >>, output |-> << >> ]

\* The locals of one stream_submissions_to_state call that is followed get by
\* get: wait_once, whether the call is the one of startup, how many of its
\* gets found the queue empty and waited, and how many returned an item
NoLoop == [ wait_once |-> FALSE, startup |-> FALSE, blocked |-> 0, gets |-> 0 ]

NoObs == [ drain |-> NoDrain,
           phase_pending |-> << >>, handled |-> {}, result |-> "none",
           write |-> NoWrite, rt_orig |-> EmptyState, appended |-> << >>,
           call |-> NoCall, loop |-> NoLoop, confirmed |-> {},
           executed |-> FALSE, outcome |-> "none", failed_write |-> "none",
           removed |-> {}, replied |-> {} ]


\* ------------------------------------------------------------ persistence
\* pydantic writes a datetime as an ISO 8601 text (date, time of day) and reads
\* it back by parsing that text.
TicksPerDay == 24 * TicksPerHour

datetime_to_json(t) == [ date |-> t \div TicksPerDay, time |-> t % TicksPerDay ]

datetime_from_json_TimeOnly(j) == j.time

datetime_from_json(j) == j.date * TicksPerDay + j.time

RECURSIVE MapSeq(_, _)
MapSeq(F(_), s) == IF s = << >> THEN << >> ELSE << F(Head(s)) >> \o MapSeq(F, Tail(s))

submission_to_json(s) == [ id |-> s.id, timestamp |-> datetime_to_json(s.timestamp) ]
submission_from_json(j) == [ id |-> j.id, timestamp |-> datetime_from_json(j.timestamp) ]

\* self.state.model_dump_json(indent=2)
model_dump_json(st) ==
    [ history |-> st.history,
      streamed_submissions |-> MapSeq(submission_to_json, st.streamed_submissions),
      streamed_submissions_until_timestamp |-> datetime_to_json(st.until_timestamp) ]

\* AgentState.model_validate_json(whole_file_as_string)
model_validate_json(doc) ==
    [ history |-> doc.history,
      streamed_submissions |-> MapSeq(submission_from_json, doc.streamed_submissions),
      until_timestamp |-> datetime_from_json(doc.streamed_submissions_until_timestamp) ]

EmptyDoc == model_dump_json(EmptyState)
AbsentFile == [ kind |-> "absent", json |-> EmptyDoc ]
TruncatedFile == [ kind |-> "truncated", json |-> EmptyDoc ]

\* save_state: open(..., 'w') empties the file, write() then fills it
save_state(st) == [ kind |-> "complete", json |-> model_dump_json(st) ]

\* ------------------------------------------------------------- ingestion
already_streamed_Never(subs, s) == FALSE

already_streamed(subs, s) == \E i \in 1..Len(subs) : subs[i].id = s.id

is_stale_Never(s, until) == FALSE

is_stale_Strict(s, until) == s.created_utc < until

\* agent.py:34  s.created_utc <= ...until_timestamp.timestamp()
is_stale(s, until) == s.created_utc <= until

drain_queue_NewestFirst(q, subs, until) ==
    LET RECURSIVE newest_first(_, _, _)
        newest_first(qq, ss, uu) ==
            IF qq = << >>
            THEN [ subs |-> ss, until |-> uu, skipped_stale |-> FALSE,
                   skipped_already |-> FALSE, consumed |-> << >> ]
            ELSE LET s == Last(qq)
                     rest ==
                       IF is_stale(s, uu)
                       THEN [ newest_first(Front(qq), ss, uu) EXCEPT !.skipped_stale = TRUE ]
                       ELSE IF already_streamed(ss, s)
                            THEN [ newest_first(Front(qq), ss, s.created_utc)
                                     EXCEPT !.skipped_already = TRUE ]
                            ELSE newest_first(Front(qq),
                                     Append(ss, [ id |-> s.id, timestamp |-> s.created_utc ]),
                                     s.created_utc)
                 IN  [ rest EXCEPT !.consumed = << s >> \o @ ]
    IN  newest_first(q, subs, until)

\* The while loop of stream_submissions_to_state over the queue content q:
\* get() takes the item at the head of the queue, put() adds at its tail;
\* consumed lists the items in the order the loop got them
RECURSIVE drain_queue(_, _, _)
drain_queue(q, subs, until) ==
    IF q = << >>
    THEN [ subs |-> subs, until |-> until, skipped_stale |-> FALSE,
           skipped_already |-> FALSE, consumed |-> << >> ]
    ELSE LET s == Head(q)
             rest ==
               IF is_stale(s, until)
               THEN [ drain_queue(Tail(q), subs, until) EXCEPT !.skipped_stale = TRUE ]
               ELSE IF already_streamed(subs, s)
                    THEN [ drain_queue(Tail(q), subs, s.created_utc)
                             EXCEPT !.skipped_already = TRUE ]
                    ELSE drain_queue(Tail(q),
                             Append(subs, [ id |-> s.id, timestamp |-> s.created_utc ]),
                             s.created_utc)
         IN  [ rest EXCEPT !.consumed = << s >> \o @ ]

timedelta(hours) == hours * TicksPerHour

newer_than_max_age_Inclusive(s, t, hours) == s.timestamp >= t - timedelta(hours)

\* agent.py:46  s.timestamp > datetime.now(timezone.utc) - timedelta(hours=...)
newer_than_max_age(s, t, hours) == s.timestamp > t - timedelta(hours)

submissions_newer_than_max_age(subs, t, hours) ==
    SelectSeq(subs, LAMBDA s : newer_than_max_age(s, t, hours))

trim_Oldest(subs) ==
    IF Len(subs) <= max_streamed_submissions THEN subs
    ELSE SubSeq(subs, 1, max_streamed_submissions)

\* agent.py:52  streamed_submissions[-max_streamed_submissions:]
trim(subs) == py_slice_from(subs, 0 - max_streamed_submissions)

\* stream_submissions_to_state on the queue content q at time t
stream_submissions_to_state(q, subs, until, t, hours) ==
    LET d == drain_queue(q, subs, until)
        kept == submissions_newer_than_max_age(d.subs, t, hours)
    IN  [ subs |-> trim(kept), until |-> d.until,
          drain |-> [ just_drained |-> TRUE, filter_now |-> t, survivors |-> kept,
                      skipped_stale |-> d.skipped_stale,
                      skipped_already |-> d.skipped_already,
                      removed_old |-> Len(kept) < Len(d.subs),
                      consumed |-> d.consumed ] ]

\* ---------------------------------------------------------------- history
append_to_history(h, item, max_history_length) ==
    LET a == Append(h, item) IN
    IF Len(a) > max_history_length
    THEN py_slice_from(a, 0 - max_history_length)
    ELSE a


\* ------------------------------------------------------ seconds_to_hms
\* A formatted duration is the sequence of its space-separated parts, the part
\* "30m" being [ n |-> 30, unit |-> "m" ]
Part(n, unit) == [ n |-> n, unit |-> unit ]

PartIf(cond, n, unit) == IF cond THEN << Part(n, unit) >> ELSE << >>

seconds_to_hms_MinutesAlways(seconds) ==
    IF seconds < 0
    THEN [ raised |-> "ValueError", value |-> << >> ]
    ELSE LET hours == seconds \div 3600
             remainder == seconds % 3600
             minutes == remainder \div 60
             secs == remainder % 60
             result == PartIf(hours # 0, hours, "h")
                       \o PartIf(minutes # 0, minutes, "m")
                       \o PartIf(secs # 0 /\ hours = 0, secs, "s")
         IN  [ raised |-> "none",
               value |-> IF result = << >> THEN << Part(0, "s") >> ELSE result ]

\* utils.py:7-19 (commands.py imports it under the name seconds_to_dhms)
seconds_to_hms(seconds) ==
    IF seconds < 0
    THEN [ raised |-> "ValueError", value |-> << >> ]
    ELSE LET hours == seconds \div 3600
             remainder == seconds % 3600
             minutes == remainder \div 60
             secs == remainder % 60
             result == PartIf(hours # 0, hours, "h")
                       \o PartIf(minutes # 0 /\ hours < 24, minutes, "m")
                       \o PartIf(secs # 0 /\ hours = 0, secs, "s")
         IN  [ raised |-> "none",
               value |-> IF result = << >> THEN << Part(0, "s") >> ELSE result ]

\* ------------------------------------------------- the command registry
\* Command.registry after the four @Command.register decorators have run
registry ==
    [ show_new_post |->
        [ command |-> "ShowNewPost", parameter_names |-> << >> ],
      show_conversation_with_new_activity |->
        [ command |-> "ShowConversationWithNewActivity", parameter_names |-> << >> ],
      reply_to_content |->
        [ command |-> "ReplyToContent",
          parameter_names |-> << "CONTENT_ID", "REPLY_TEXT" >> ],
      create_post |->
        [ command |-> "CreatePost",
          parameter_names |-> << "SUBREDDIT", "POST_TITLE", "POST_TEXT" >> ] ]

NoInstance == [ cls |-> "none" ]

\* raise ValueError(...): nothing is constructed
ValueError(by) == [ raised |-> "ValueError", instance |-> NoInstance, decoded_by |-> by ]

Returned(by, inst) == [ raised |-> "none", instance |-> inst, decoded_by |-> by ]

instance_decode_AtLeast(command_cls, args) ==
    CASE command_cls = "ShowNewPost" ->
            Returned(command_cls, [ cls |-> "ShowNewPost" ])
      [] command_cls = "ShowConversationWithNewActivity" ->
            Returned(command_cls, [ cls |-> "ShowConversationWithNewActivity" ])
      [] command_cls = "ReplyToContent" ->
            IF Len(args) < 2 THEN ValueError(command_cls)
            ELSE Returned(command_cls, [ cls |-> "ReplyToContent",
                                         content_id |-> args[1], reply_text |-> args[2] ])
      [] command_cls = "CreatePost" ->
            IF Len(args) < 3 THEN ValueError(command_cls)
            ELSE Returned(command_cls, [ cls |-> "CreatePost", subreddit |-> args[1],
                                         post_title |-> args[2], post_text |-> args[3] ])

instance_decode_Swapped(command_cls, args) ==
    CASE command_cls = "ShowNewPost" ->
            IF Len(args) # 0 THEN ValueError(command_cls)
            ELSE Returned(command_cls, [ cls |-> "ShowNewPost" ])
      [] command_cls = "ShowConversationWithNewActivity" ->
            IF Len(args) # 0 THEN ValueError(command_cls)
            ELSE Returned(command_cls, [ cls |-> "ShowConversationWithNewActivity" ])
      [] command_cls = "ReplyToContent" ->
            IF Len(args) # 2 THEN ValueError(command_cls)
            ELSE Returned(command_cls, [ cls |-> "ReplyToContent",
                                         content_id |-> args[2], reply_text |-> args[1] ])
      [] command_cls = "CreatePost" ->
            IF Len(args) # 3 THEN ValueError(command_cls)
            ELSE Returned(command_cls, [ cls |-> "CreatePost", subreddit |-> args[1],
                                         post_title |-> args[2], post_text |-> args[3] ])

\* The instance_decode classmethod of each Command subclass
instance_decode(command_cls, args) ==
    CASE command_cls = "ShowNewPost" ->
            IF Len(args) # 0 THEN ValueError(command_cls)
            ELSE Returned(command_cls, [ cls |-> "ShowNewPost" ])
      [] command_cls = "ShowConversationWithNewActivity" ->
            IF Len(args) # 0 THEN ValueError(command_cls)
            ELSE Returned(command_cls, [ cls |-> "ShowConversationWithNewActivity" ])
      [] command_cls = "ReplyToContent" ->
            IF Len(args) # 2 THEN ValueError(command_cls)
            ELSE Returned(command_cls, [ cls |-> "ReplyToContent",
                                         content_id |-> args[1], reply_text |-> args[2] ])
      [] command_cls = "CreatePost" ->
            IF Len(args) # 3 THEN ValueError(command_cls)
            ELSE Returned(command_cls, [ cls |-> "CreatePost", subreddit |-> args[1],
                                         post_title |-> args[2], post_text |-> args[3] ])

\* Command.decode(action)
decode(action) ==
    IF action.command \notin DOMAIN registry
    THEN ValueError("none")
    ELSE instance_decode(registry[action.command].command, action.parameters)

\* ---------------------------------------------------- command execution
\* The environment a command runs in: env.agent_state.streamed_submissions,
\* the unread inbox, the clock, the agent_config and the platform (the newest
\* post of the account, if it has one, and how its calls fail: "read" a read
\* raises an error of the transport, "read_client" a read raises
\* ClientException, "write" a write raises)
Env(subs, unread, t, config, platform) ==
    [ streamed_submissions |-> subs, inbox |-> unread, now |-> t,
      agent_config |-> config, platform |-> platform ]

SecondsPerTick == 3600 \div TicksPerHour

ReadFails(env) == env.platform.fault \in { "read", "read_client" }

\* An outcome map has one key; raising returns no map
Outcome(key, value) == [ raised |-> "none", map |-> key :> value ]

Raised(exc) == [ raised |-> exc, map |-> << >> ]

\* What execute did: its return, the pending list and the unread inbox it
\* leaves, and its platform write
Executed(out, env, subs, unread, w) ==
    [ out |-> out, streamed_submissions |-> subs, inbox |-> unread, write |-> w ]

NoEffect(out, env) == Executed(out, env, env.streamed_submissions, env.inbox, NoWrite)

ShowNewPost_execute_Empty(env) ==
    IF Len(env.streamed_submissions) = 0
    THEN NoEffect([ raised |-> "none", map |-> << >> ], env)
    ELSE LET id == Last(env.streamed_submissions).id
             subs == Front(env.streamed_submissions)
         IN  IF ReadFails(env) \/ id \notin env.platform.submissions
             THEN Executed(Outcome("error", "Could not fetch new post"), env,
                           subs, env.inbox, NoWrite)
             ELSE Executed(Outcome("post", id), env, subs, env.inbox, NoWrite)

\* ShowNewPost.execute: the del precedes the reads that build the 'post' map
ShowNewPost_execute(env) ==
    IF Len(env.streamed_submissions) = 0
    THEN NoEffect(Outcome("note", "No new submissions"), env)
    ELSE LET id == Last(env.streamed_submissions).id
             subs == Front(env.streamed_submissions)
         IN  IF ReadFails(env) \/ id \notin env.platform.submissions
             THEN Executed(Outcome("error", "Could not fetch new post"), env,
                           subs, env.inbox, NoWrite)
             ELSE Executed(Outcome("post", id), env, subs, env.inbox, NoWrite)

\* What available(env) returns, or that it raised
Available(value) == [ raised |-> FALSE, value |-> value ]

AvailableRaised == [ raised |-> TRUE, value |-> FALSE ]

ShowNewPost_available(env) == Available(Len(env.streamed_submissions) > 0)

\* The newest unread inbox comment, marked read on the platform unless in test
\* mode; None when there is none
pop_comment_from_inbox(env) ==
    IF ReadFails(env) THEN [ raised |-> TRUE, comment |-> 0, marked |-> FALSE ]
    ELSE IF env.inbox = << >> THEN [ raised |-> FALSE, comment |-> 0, marked |-> FALSE ]
    ELSE IF env.agent_config.test_mode
         THEN [ raised |-> FALSE, comment |-> env.inbox[1], marked |-> FALSE ]
    ELSE IF env.platform.fault = "write"
         THEN [ raised |-> TRUE, comment |-> env.inbox[1], marked |-> FALSE ]
    ELSE [ raised |-> FALSE, comment |-> env.inbox[1], marked |-> TRUE ]

ShowConversationWithNewActivity_execute(env) ==
    LET p == pop_comment_from_inbox(env)
        err == Outcome("error", "Could not show conversation")
    IN  IF p.raised THEN NoEffect(err, env)
        ELSE IF p.comment = 0
        THEN NoEffect(Outcome("note", "No new comments in inbox"), env)
        ELSE IF p.marked
        THEN Executed(Outcome("conversation", p.comment), env, env.streamed_submissions,
                      Tail(env.inbox), [ kind |-> "mark_read", id |-> p.comment ])
        ELSE NoEffect(Outcome("conversation", p.comment), env)

\* len(list_inbox(env.reddit)) > 0
ShowConversationWithNewActivity_available(env) ==
    IF ReadFails(env) THEN AvailableRaised ELSE Available(Len(env.inbox) > 0)

\* ReplyToContent.execute
ReplyToContent_execute(self, env) ==
    IF self.content_id.prefix = "t3_"
    THEN IF ReadFails(env) \/ self.content_id.id \notin env.platform.submissions
         THEN NoEffect(Outcome("error", "Could not fetch post with ID"), env)
         ELSE IF env.platform.fault = "write"
         THEN NoEffect(Outcome("error", "Could not reply to post with ID"), env)
         ELSE Executed(Outcome("result", "Reply posted successfully"), env,
                       env.streamed_submissions, env.inbox,
                       [ kind |-> "reply_post", id |-> self.content_id.id ])
    ELSE IF self.content_id.prefix = "t1_"
    THEN IF env.platform.fault = "read"
         THEN NoEffect(Raised("Exception"), env)
         ELSE IF env.platform.fault = "read_client"
                 \/ self.content_id.id \notin env.platform.comments
         THEN NoEffect(Outcome("error", "Could not fetch comment with ID"), env)
         ELSE IF env.platform.fault = "write"
         THEN NoEffect(Outcome("error", "Could not reply to comment with ID"), env)
         ELSE Executed(Outcome("result", "Reply posted successfully"), env,
                       env.streamed_submissions, env.inbox,
                       [ kind |-> "reply_comment", id |-> self.content_id.id ])
    ELSE NoEffect(Outcome("error", "Invalid content ID"), env)

ReplyToContent_available(env) == Available(TRUE)

time_until_create_post_possible_Minutes(env) ==
    IF ReadFails(env) THEN [ raised |-> "Exception", value |-> 0 ]
    ELSE IF ~ env.platform.latest_submission.exists
    THEN [ raised |-> "StopIteration", value |-> 0 ]
    ELSE [ raised |-> "none",
           value |-> Max(env.platform.latest_submission.created_utc * SecondsPerTick
                           + env.agent_config.minimum_time_between_posts_hours * 60
                           - env.now * SecondsPerTick, 0) ]

\* commands.py:168-175; get_latest_submission is next() on the account's
\* newest submissions, which raises StopIteration when there is none
time_until_create_post_possible(env) ==
    IF ReadFails(env) THEN [ raised |-> "Exception", value |-> 0 ]
    ELSE IF ~ env.platform.latest_submission.exists
    THEN [ raised |-> "StopIteration", value |-> 0 ]
    ELSE [ raised |-> "none",
           value |-> Max(env.platform.latest_submission.created_utc * SecondsPerTick
                           + env.agent_config.minimum_time_between_posts_hours * 3600
                           - env.now * SecondsPerTick, 0) ]

NotEnoughTime(time_left) ==
    [ message |-> "Not enough time has passed since the last post. Time until next post possible: ",
      wait |-> seconds_to_hms(time_left).value ]

CreatePost_execute_NoGate(self, env) ==
    LET time_left == time_until_create_post_possible(env)
        failed == Outcome("error", "Could not create post")
    IN  IF time_left.raised # "none" THEN NoEffect(failed, env)
        ELSE IF self.subreddit \notin env.agent_config.active_on_subreddits
             THEN NoEffect(Outcome("error", "You are not active on the subreddit"), env)
             ELSE IF env.platform.fault = "write" THEN NoEffect(failed, env)
             ELSE Executed(Outcome("result", "Post created"), env,
                           env.streamed_submissions, env.inbox,
                           [ kind |-> "submit", id |-> 1 ])

\* CreatePost.execute
CreatePost_execute(self, env) ==
    LET time_left == time_until_create_post_possible(env)
        failed == Outcome("error", "Could not create post")
    IN  IF time_left.raised # "none" THEN NoEffect(failed, env)
        ELSE IF time_left.value <= 0
        THEN IF self.subreddit \notin env.agent_config.active_on_subreddits
             THEN NoEffect(Outcome("error", "You are not active on the subreddit"), env)
             ELSE IF env.platform.fault = "write" THEN NoEffect(failed, env)
             ELSE Executed(Outcome("result", "Post created"), env,
                           env.streamed_submissions, env.inbox,
                           [ kind |-> "submit", id |-> 1 ])
        ELSE NoEffect(Outcome("error", NotEnoughTime(time_left.value)), env)

\* CreatePost.available
CreatePost_available(env) ==
    LET time_left == time_until_create_post_possible(env)
    IN  IF time_left.raised # "none" THEN AvailableRaised
        ELSE Available(time_left.value <= 0)

\* command.execute(env)
execute(self, env) ==
    CASE self.cls = "ShowNewPost" -> ShowNewPost_execute(env)
      [] self.cls = "ShowConversationWithNewActivity" ->
            ShowConversationWithNewActivity_execute(env)
      [] self.cls = "ReplyToContent" -> ReplyToContent_execute(self, env)
      [] self.cls = "CreatePost" -> CreatePost_execute(self, env)

\* type(command).available(env)
available(self, env) ==
    CASE self.cls = "ShowNewPost" -> ShowNewPost_available(env)
      [] self.cls = "ShowConversationWithNewActivity" ->
            ShowConversationWithNewActivity_available(env)
      [] self.cls = "ReplyToContent" -> ReplyToContent_available(env)
      [] self.cls = "CreatePost" -> CreatePost_available(env)

\* ------------------------------------------------ the conversation tree
\* The comment forest of a submission on the platform: comment i has the score
\* score[i] and is a reply to comment parent[i], or to the submission when
\* parent[i] = 0; the platform lists the replies of one parent by increasing i.
\* Every comment has an author and the forest holds no MoreComments.
\*
\* A min_score_threshold is None or an integer
None == [ is_none |-> TRUE, value |-> 0 ]

Some(v) == [ is_none |-> FALSE, value |-> v ]

CommentTreeNode(content_id, score, replies) ==
    [ content_id |-> content_id, score |-> score, replies |-> replies ]

\* get_comment_tree_recursive on the replies to parent
get_comment_tree_recursive(forest, parent) ==
    LET n == Len(forest.score)
        RECURSIVE items(_, _)
        items(par, i) ==
            IF i > n THEN << >>
            ELSE (IF forest.parent[i] = par
                  THEN << CommentTreeNode(i, forest.score[i], items(i, i + 1)) >>
                  ELSE << >>) \o items(par, i + 1)
    IN  items(parent, 1)

RECURSIVE get_tree_size(_, _)
get_tree_size(min_score_threshold, tree) ==
    IF tree = << >> THEN 0
    ELSE LET node == Head(tree) IN
         (IF ~ min_score_threshold.is_none /\ node.score < min_score_threshold.value
          THEN 0
          ELSE 1 + get_tree_size(min_score_threshold, node.replies))
         + get_tree_size(min_score_threshold, Tail(tree))

find_min_score_threshold_ReturnsHigh(tree, desired_size, low, high) ==
    LET mid0 == (low + high) \div 2
        size(t) == get_tree_size(Some(t), tree)
        RECURSIVE expand_low(_)
        expand_low(l) == IF size(l) < desired_size
                         THEN expand_low(l - Max(mid0 - l, 5)) ELSE l
        RECURSIVE expand_high(_)
        expand_high(h) == IF size(h) > desired_size
                          THEN expand_high(h + Max(h - mid0, 5)) ELSE h
        RECURSIVE bisect(_, _)
        bisect(l, h) ==
            IF l <= h
            THEN LET mid == (l + h) \div 2 IN
                 IF size(mid) = desired_size THEN mid
                 ELSE IF size(mid) < desired_size THEN bisect(l, mid - 1)
                 ELSE bisect(mid + 1, h)
            ELSE h
    IN  bisect(expand_low(low), expand_high(high))

\* reddit_utils.py:158-174: the two while loops that widen [low, high], then
\* the bisection (// rounds down, as \div does)
find_min_score_threshold(tree, desired_size, low, high) ==
    LET mid0 == (low + high) \div 2
        size(t) == get_tree_size(Some(t), tree)
        RECURSIVE expand_low(_)
        expand_low(l) == IF size(l) < desired_size
                         THEN expand_low(l - Max(mid0 - l, 5)) ELSE l
        RECURSIVE expand_high(_)
        expand_high(h) == IF size(h) > desired_size
                          THEN expand_high(h + Max(h - mid0, 5)) ELSE h
        RECURSIVE bisect(_, _)
        bisect(l, h) ==
            IF l <= h
            THEN LET mid == (l + h) \div 2 IN
                 IF size(mid) = desired_size THEN mid
                 ELSE IF size(mid) < desired_size THEN bisect(l, mid - 1)
                 ELSE bisect(mid + 1, h)
            ELSE l
    IN  bisect(expand_low(low), expand_high(high))

get_cropped_tree_Strict(tree, min_score_threshold) ==
    LET RECURSIVE strict(_)
        strict(tr) ==
            IF tr = << >> THEN << >>
            ELSE LET node == Head(tr) IN
                 (IF ~ min_score_threshold.is_none
                       /\ node.score <= min_score_threshold.value
                  THEN << >>
                  ELSE << CommentTreeNode(node.content_id, node.score,
                                          strict(node.replies)) >>)
                 \o strict(Tail(tr))
    IN  strict(tree)

get_cropped_tree_KeepsReplies(tree, min_score_threshold) ==
    SelectSeq(tree, LAMBDA node :
        min_score_threshold.is_none \/ node.score >= min_score_threshold.value)

RECURSIVE get_cropped_tree(_, _)
get_cropped_tree(tree, min_score_threshold) ==
    IF tree = << >> THEN << >>
    ELSE LET node == Head(tree) IN
         (IF ~ min_score_threshold.is_none /\ node.score < min_score_threshold.value
          THEN << >>
          ELSE << CommentTreeNode(node.content_id, node.score,
                      get_cropped_tree(node.replies, min_score_threshold)) >>)
         \o get_cropped_tree(Tail(tree), min_score_threshold)

get_comment_tree_InitialLow(submission, max_size) ==
    LET comment_tree == get_comment_tree_recursive(submission, 0)
        tree_size == get_tree_size(None, comment_tree)
        min_score_threshold == IF tree_size >= max_size THEN Some(1) ELSE None
    IN  [ comment_tree |-> comment_tree, min_score_threshold |-> min_score_threshold,
          replies |-> get_cropped_tree(comment_tree, min_score_threshold) ]

\* get_comment_tree(submission, max_size): the materialized tree, the
\* threshold and the replies of the SubmissionTreeNode it returns
get_comment_tree(submission, max_size) ==
    LET comment_tree == get_comment_tree_recursive(submission, 0)
        tree_size == get_tree_size(None, comment_tree)
        min_score_threshold ==
            IF tree_size >= max_size
            THEN Some(find_min_score_threshold(comment_tree, max_size, 1, 500))
            ELSE None
    IN  [ comment_tree |-> comment_tree, min_score_threshold |-> min_score_threshold,
          replies |-> get_cropped_tree(comment_tree, min_score_threshold) ]

\* ------------------------------------------------------------ environment
\* The posts the platform's feed can yield: any identifier with any creation
\* time after the epoch; in the trimming scenario TrimPosts posts, post i
\* created at hour i, which the stream yields once each, oldest first
AnyFeed == [ id : 1..NumIds, created_utc : 1..MaxTick, own : BOOLEAN, is_self : BOOLEAN ]

TrimFeed ==
    LET yielded == IF submission_queue # << >> THEN Last(submission_queue).created_utc
                   ELSE until_timestamp
    IN  { [ id |-> i, created_utc |-> i * TicksPerHour, own |-> FALSE,
            is_self |-> TRUE ] : i \in { yielded \div TicksPerHour + 1 } \cap 1..TrimPosts }

\* ... and in the authorship scenario the post 1 is the agent's own, whatever
\* its time of creation and its kind
AuthoredFeed == { s \in AnyFeed : s.own = (s.id = 1) }

\* ... in the replay scenario post i is created at tick i and the stream can
\* yield it any number of times; in the trimming scenario with replay the
\* stream can also yield post 1 again
ReplayFeed == { s \in AnyFeed : s.id = s.created_utc /\ ~ s.own /\ s.is_self }

TrimReplayFeed ==
    TrimFeed \cup { [ id |-> 1, created_utc |-> TicksPerHour, own |-> FALSE,
                      is_self |-> TRUE ] }

Feed == CASE cfg.feed = "trim" -> TrimFeed
          [] cfg.feed = "authored" -> AuthoredFeed
          [] cfg.feed = "replay" -> ReplayFeed
          [] cfg.feed = "trim_replay" -> TrimReplayFeed
          [] OTHER -> AnyFeed

\* The identifiers of the records that were in the pending list `before` and
\* are not in `after`, kept in obs.removed in the scenarios with replay
Removed(before, after) ==
    IF cfg.feed \in { "replay", "trim_replay" }
    THEN { r.id : r \in Range(before) } \ { r.id : r \in Range(after) }
    ELSE {}

Running == pc \in { "startup_drain", "react", "react_inbox", "react_post", "act",
                    "loop_startup", "loop_get", "loop_blocked", "loop_filter",
                    "loop_done", "react_handle", "react_remove" }

Init ==
    /\ cfg \in [ max_post_age_for_replying_hours : { 1 },
                 max_history_length : { 1 },
                 test_mode : BOOLEAN,
                 feed : { "any" },
                 max_queue : { MaxQueue },
                 max_tick : { MaxTick },
                 num_comments : { NumComments },
                 num_notes : { 1 },
                 can_create_posts : { TRUE },
                 can_reply_to_content : BOOLEAN,
                 active_on_subreddits : { { "active" } } ]
    /\ now = 0
    /\ submission_queue = << >>
    /\ history = << >>
    /\ streamed_submissions = << >>
    /\ until_timestamp = 0
    /\ state_file = AbsentFile
    /\ inbox = << >>
    /\ comments = << >>
    /\ pc = "construct"
    /\ producer = "not_started"
    /\ obs = NoObs

\* The clock advances
Tick ==
    /\ now < cfg.max_tick
    /\ now' = now + 1
    /\ UNCHANGED << cfg, producer, submission_queue, state_vars, state_file, inbox,
                    comments, pc, obs >>

\* A comment arrives in the agent's inbox (newest first)
InboxArrival ==
    /\ \E c \in 1..cfg.num_comments :
        /\ c \notin Range(inbox)
        /\ inbox' = << c >> \o inbox
    /\ UNCHANGED << cfg, producer, now, submission_queue, state_vars, state_file,
                    comments, pc, obs >>

queued_OwnToo(s, t, hours) ==
    /\ s.is_self
    /\ ~ (s.created_utc < t - timedelta(hours))

\* The three tests of the loop body of handle_submissions on the post s at
\* time t: TRUE when s reaches submission_queue.put
queued(s, t, hours) ==
    /\ ~ s.own
    /\ s.is_self
    /\ ~ (s.created_utc < t - timedelta(hours))

\* One iteration of the for loop of handle_submissions that reaches put()
handle_submissions ==
    /\ Running
    /\ producer = "subscribed"
    /\ Len(submission_queue) < cfg.max_queue
    /\ \E s \in Feed :
        /\ s.created_utc <= now
        /\ queued(s, now, cfg.max_post_age_for_replying_hours)
        /\ submission_queue' = Append(submission_queue, s)
    /\ UNCHANGED << cfg, producer, now, state_vars, state_file, inbox,
                    comments, pc, obs >>

\* subreddit.stream.submissions() raises inside the for statement of
\* handle_submissions: nothing catches it and the thread ends
StreamError ==
    /\ Running
    /\ producer = "subscribed"
    /\ producer' = "stopped"
    /\ UNCHANGED << cfg, now, submission_queue, state_vars, state_file, inbox,
                    comments, pc, obs >>

\* AgentEnv.__init__, then run_agent starts the handle_submissions thread
Construct ==
    /\ pc = "construct"
    /\ \/ /\ state_file.kind = "absent"
          /\ history' = EmptyState.history
          /\ streamed_submissions' = EmptyState.streamed_submissions
          /\ until_timestamp' = EmptyState.until_timestamp
          /\ pc' = "startup_drain"
          /\ producer' = "subscribed"
       \/ /\ state_file.kind = "complete"
          /\ LET st == model_validate_json(state_file.json) IN
              /\ history' = st.history
              /\ streamed_submissions' = st.streamed_submissions
              /\ until_timestamp' = st.until_timestamp
          /\ pc' = "startup_drain"
          /\ producer' = "subscribed"
       \/ /\ state_file.kind = "truncated"
          /\ pc' = "load_failed"
          /\ UNCHANGED << state_vars, producer >>
    /\ UNCHANGED << cfg, now, submission_queue, state_file, inbox,
                    comments, obs >>

\* stream_submissions_to_state(env, wait_once) with the save_state that ends it
Drain(next_pc, listed) ==
    LET r == stream_submissions_to_state(submission_queue, streamed_submissions,
                 until_timestamp, now, cfg.max_post_age_for_replying_hours)
        appended == drain_queue(submission_queue, streamed_submissions,
                                until_timestamp).subs
    IN  /\ submission_queue' = << >>
        /\ streamed_submissions' = r.subs
        /\ until_timestamp' = r.until
        /\ state_file' = save_state([ history |-> history,
                                      streamed_submissions |-> r.subs,
                                      until_timestamp |-> r.until ])
        /\ obs' = [ NoObs EXCEPT !.drain = r.drain, !.phase_pending = r.subs,
                                 !.removed = obs.removed \cup Removed(appended, r.subs),
                                 !.replied = obs.replied ]
        /\ comments' = listed
        /\ pc' = next_pc
        /\ UNCHANGED << cfg, producer, now, history, inbox >>

\* run_agent line 288: the drain on startup
StartupDrain ==
    /\ pc = "startup_drain"
    /\ Drain("react", << >>)

ReactRaises_Terminates ==
    /\ pc' = "terminated"
    /\ obs' = [ obs EXCEPT !.drain = NoDrain, !.result = "raised",
                           !.write = NoWrite ]

\* An exception leaves handle_new_event; run_agent logs it and goes on to the
\* wait (confirm_enter() or time.sleep(10)) before the act phase
ReactRaises ==
    /\ pc' = "act"
    /\ obs' = [ obs EXCEPT !.drain = NoDrain, !.result = "raised",
                           !.write = NoWrite ]

\* handle_new_event lines 158-161: list the inbox, then drain
ReactDrain ==
    /\ pc = "react"
    /\ \/ Drain("react_inbox", inbox)
       \/ /\ ReactRaises
          /\ UNCHANGED << cfg, producer, now, submission_queue, state_vars, state_file, inbox,
                          comments >>


\* The platform as the main thread meets it during one call: every post and
\* comment it names exists, and its calls fail in the way f
PlatformNow(f) ==
    [ fault |-> f, latest_submission |-> [ exists |-> FALSE, created_utc |-> 0 ],
      submissions |-> 1..NumIds, comments |-> 1..NumComments ]

Faults == { "none", "read", "read_client", "write" }

Confirmations == IF cfg.test_mode THEN BOOLEAN ELSE { TRUE }

do_execute_Always(test_mode, answer) == TRUE

\* not env.test_mode or confirm_yes_no(...), answer being what the operator
\* replies when asked (agent.py:87, 176, 198, 273)
do_execute(test_mode, answer) == ~ test_mode \/ answer

\* The prompt, if the operator was asked and answered yes
Yes(prompt, answer) == IF cfg.test_mode /\ answer THEN { prompt } ELSE {}

NotExecuted(r) ==
    [ executed |-> FALSE, write |-> NoWrite, outcome |-> "none",
      failed_write |-> "none", saved |-> FALSE, raised |-> r, confirmed |-> {} ]

\* How generating and submitting one reply to content_id can end
\* (handle_inbox_message or handle_new_post, then reply_to_content): no reply
\* is made (the provider returns nothing or no data, or the content is not
\* found); an exception is raised before the command runs; the operator
\* declines "Submit the reply?"; ReplyToContent.execute raises; or it returns
\* its outcome map, after which save_result records the reply or building the
\* HistoryItem raises.
ReplyOutcomes(content_id) ==
    { NotExecuted(r) : r \in BOOLEAN }
    \cup UNION {
        LET e == ReplyToContent_execute(
                     [ cls |-> "ReplyToContent", content_id |-> content_id,
                       reply_text |-> "a" ],
                     Env(streamed_submissions, inbox, now, cfg, PlatformNow(f)))
        IN  IF ~ do_execute(cfg.test_mode, answer)
            THEN { NotExecuted(FALSE) }
            ELSE IF e.out.raised # "none"
            THEN { [ executed |-> TRUE, write |-> NoWrite, outcome |-> "none",
                     failed_write |-> "none", saved |-> FALSE, raised |-> TRUE,
                     confirmed |-> Yes("reply", answer) ] }
            ELSE { [ executed |-> TRUE, write |-> e.write,
                     outcome |-> CHOOSE k \in DOMAIN e.out.map : TRUE,
                     failed_write |-> IF f = "write" THEN "reply" ELSE "none",
                     saved |-> sv, raised |-> ~ sv,
                     confirmed |-> Yes("reply", answer) ] : sv \in BOOLEAN }
        : f \in Faults, answer \in Confirmations }

HistoryItem(n) == [ notes_and_strategy |-> n ]

\* save_result(env, HistoryItem(notes_and_strategy=n))
save_result(n) ==
    LET h == append_to_history(history, HistoryItem(n), cfg.max_history_length)
    IN  /\ history' = h
        /\ state_file' = save_state([ history |-> h,
                                      streamed_submissions |-> streamed_submissions,
                                      until_timestamp |-> until_timestamp ])

\* The effect of one ReplyOutcomes member on the history and the state file
reply_to_content(o, n) ==
    IF o.saved THEN save_result(n)
    ELSE UNCHANGED << history, state_file >>

\* handle_new_event lines 162-177: the newest unread inbox comment, then
\* comment.mark_read(), which succeeds or raises
ReactInbox ==
    /\ pc = "react_inbox"
    /\ IF comments = << >>
       THEN /\ pc' = "react_post"
            /\ obs' = [ obs EXCEPT !.drain = NoDrain ]
            /\ UNCHANGED << history, state_file, inbox >>
       ELSE \E o \in ReplyOutcomes([ prefix |-> "t1_", id |-> comments[1] ]),
               n \in 1..cfg.num_notes, mark_read \in Confirmations :
            /\ reply_to_content(o, n)
            /\ LET done == [ obs EXCEPT !.drain = NoDrain, !.write = o.write,
                                        !.handled = { "inbox" },
                                        !.executed = o.executed,
                                        !.outcome = o.outcome,
                                        !.failed_write = o.failed_write,
                                        !.confirmed = o.confirmed ]
               IN
               \/ /\ o.raised
                  /\ pc' = "act"
                  /\ obs' = [ done EXCEPT !.result = "raised" ]
                  /\ UNCHANGED inbox
               \/ /\ ~ o.raised
                  /\ inbox' = IF do_execute(cfg.test_mode, mark_read)
                              THEN SelectSeq(inbox, LAMBDA c : c # comments[1])
                              ELSE inbox
                  /\ pc' = "react_post"
                  /\ obs' = [ done EXCEPT !.confirmed = @ \cup Yes("mark_read", mark_read) ]
               \/ /\ ~ o.raised
                  /\ o.failed_write = "none"
                  /\ do_execute(cfg.test_mode, mark_read)
                  /\ pc' = "act"
                  /\ obs' = [ done EXCEPT !.result = "raised",
                                          !.failed_write = "mark_read",
                                          !.confirmed = @ \cup Yes("mark_read", mark_read) ]
                  /\ UNCHANGED inbox
    /\ comments' = << >>
    /\ UNCHANGED << cfg, producer, now, submission_queue, streamed_submissions,
                    until_timestamp >>

\* The pending post for which the platform has accepted a reply of the agent;
\* the platform keeps the replies when the process stops. Kept in obs.replied
\* in the unattended scenario with replay
Replied(id, o) ==
    IF cfg.feed = "replay" /\ ~ cfg.test_mode
          /\ o.write.kind \in { "reply_post", "reply_comment" }
    THEN { id } ELSE {}

\* handle_new_event lines 179-202: the last record of the pending list; the
\* provider replies to the post or to a comment of its tree
ReactPost ==
    /\ pc = "react_post"
    /\ IF streamed_submissions = << >>
       THEN /\ pc' = "act"
            /\ obs' = [ obs EXCEPT !.result = "returned", !.write = NoWrite ]
            /\ UNCHANGED << history, state_file, streamed_submissions >>
       ELSE \E c \in { [ prefix |-> "t3_", id |-> Last(streamed_submissions).id ],
                       [ prefix |-> "t1_", id |-> 1 ] } :
            \E o \in ReplyOutcomes(c), n \in 1..cfg.num_notes, remove \in Confirmations :
            /\ reply_to_content(o, n)
            /\ LET done == [ obs EXCEPT !.write = o.write,
                                        !.handled = @ \cup { "post" },
                                        !.executed = o.executed,
                                        !.outcome = o.outcome,
                                        !.failed_write = o.failed_write,
                                        !.confirmed = o.confirmed,
                                        !.replied = @ \cup Replied(
                                            Last(streamed_submissions).id, o) ]
               IN
               \/ /\ o.raised
                  /\ pc' = "act"
                  /\ obs' = [ done EXCEPT !.result = "raised" ]
                  /\ UNCHANGED streamed_submissions
               \/ /\ ~ o.raised
                  /\ streamed_submissions' = IF do_execute(cfg.test_mode, remove)
                                             THEN Front(streamed_submissions)
                                             ELSE streamed_submissions
                  /\ pc' = "act"
                  /\ obs' = [ done EXCEPT !.result = "returned",
                                          !.confirmed = @ \cup Yes("remove", remove),
                                          !.removed = @ \cup Removed(streamed_submissions,
                                                                     streamed_submissions') ]
    /\ UNCHANGED << cfg, producer, now, submission_queue, until_timestamp, inbox,
                    comments >>

\* Subreddit names as the provider and the configuration write them, and
\* Python's str.strip, str.lower, str.startswith('r/') and [2:] on these names
SubredditNames == { "active", "Active", " Active ", "r/active", "other", "r/other" }

strip(name) == IF name = " Active " THEN "Active" ELSE name

lower(name) == IF name = "Active" THEN "active" ELSE name

startswith_r(name) == name \in { "r/active", "r/other" }

without_r(name) == CASE name = "r/active" -> "active" [] name = "r/other" -> "other"

\* reddit_utils.py:211-215
canonicalize_subreddit_name(subreddit_name) ==
    LET subreddit == lower(strip(subreddit_name))
    IN  IF startswith_r(subreddit) THEN without_r(subreddit) ELSE subreddit

is_active_on_Any(subreddit, active_on_subreddits) == TRUE

\* agent.py:276  subreddit in [subreddit.lower() for subreddit in ...]
is_active_on(subreddit, active_on_subreddits) ==
    subreddit \in { lower(a) : a \in active_on_subreddits }

NoAction(r) ==
    [ executed |-> FALSE, write |-> NoWrite, outcome |-> "none",
      failed_write |-> "none", returned |-> FALSE, raised |-> r, confirmed |-> {},
      target |-> "none" ]

\* perform_action: before is how lines 254-267 go ("not_eligible": the time
\* since the last post is too short; "raises": one of the calls raises;
\* "eligible"), submission is what the provider generated ("None" or the
\* subreddit it names) and answer what the operator replies to "Execute the
\* action?". It returns None, raises before it writes, raises in submit(), or
\* returns a result ('error': not active on the subreddit, 'result': post
\* created, 'note': execution skipped by the operator).
perform_action(env, before, submission, answer) ==
    IF ~ env.agent_config.can_create_posts THEN NoAction(FALSE)
    ELSE IF before = "raises" THEN NoAction(TRUE)
    ELSE IF before = "not_eligible" \/ submission = "None" THEN NoAction(FALSE)
    ELSE IF do_execute(env.agent_config.test_mode, answer)
    THEN LET subreddit == canonicalize_subreddit_name(submission)
             asked == [ NoAction(FALSE) EXCEPT !.confirmed = Yes("execute", answer) ]
         IN  IF ~ is_active_on(subreddit, env.agent_config.active_on_subreddits)
             THEN [ asked EXCEPT !.outcome = "error", !.returned = TRUE ]
             ELSE IF env.platform.fault = "write"
             THEN [ asked EXCEPT !.executed = TRUE, !.failed_write = "submit",
                                 !.raised = TRUE, !.target = subreddit ]
             ELSE [ asked EXCEPT !.executed = TRUE,
                                 !.write = [ kind |-> "submit", id |-> 1 ],
                                 !.outcome = "result", !.returned = TRUE,
                                 !.target = subreddit ]
    ELSE [ NoAction(FALSE) EXCEPT !.outcome = "note", !.returned = TRUE ]

\* What perform_action can do in the loop
ActionOutcomes ==
    { perform_action(Env(streamed_submissions, inbox, now, cfg, PlatformNow(f)),
                     before, submission, answer) :
        f \in Faults, before \in { "not_eligible", "raises", "eligible" },
        submission \in { "None", "active", "other" }, answer \in Confirmations }

\* run_agent lines 306-323: perform_action, the save_result of its result
\* (recorded, unless building the HistoryItem raises) and the wait before the
\* next iteration
Act ==
    /\ pc = "act"
    /\ pc' = "react"
    /\ \E a \in ActionOutcomes, recorded \in BOOLEAN, n \in 1..cfg.num_notes :
        /\ ~ a.returned => ~ recorded
        /\ IF recorded THEN save_result(n) ELSE UNCHANGED << history, state_file >>
        /\ obs' = [ NoObs EXCEPT
                      !.result = IF a.raised \/ (a.returned /\ ~ recorded)
                                 THEN "raised" ELSE "returned",
                      !.write = a.write,
                      !.executed = a.executed,
                      !.outcome = a.outcome,
                      !.failed_write = a.failed_write,
                      !.confirmed = a.confirmed,
                      !.removed = obs.removed,
                      !.replied = obs.replied ]
    /\ UNCHANGED << cfg, producer, now, submission_queue, streamed_submissions,
                    until_timestamp, inbox, comments >>

\* The process stops; what it held in memory is lost
Stopped ==
    /\ pc' = "construct"
    /\ submission_queue' = << >>
    /\ history' = << >>
    /\ streamed_submissions' = << >>
    /\ until_timestamp' = 0
    /\ comments' = << >>
    /\ obs' = [ NoObs EXCEPT !.replied = obs.replied ]
    /\ producer' = "not_started"
    /\ UNCHANGED << cfg, now, inbox >>

Kill ==
    /\ Running
    /\ Stopped
    /\ UNCHANGED state_file

\* The process stops inside save_state, between open(..., 'w') and the end of write()
KillDuringSave ==
    /\ pc \in { "startup_drain", "react" }
    /\ Stopped
    /\ state_file' = TruncatedFile

\* The agent's loop and its feed
NextLoop ==
    \/ Tick
    \/ handle_submissions
    \/ Construct
    \/ StartupDrain
    \/ ReactDrain
    \/ ReactInbox
    \/ ReactPost
    \/ Act

\* ... with inbox comments arriving, the feed failing and the process stopping
\* and restarting
Next ==
    \/ NextLoop
    \/ InboxArrival
    \/ StreamError
    \/ Kill
    \/ KillDuringSave

Spec == Init /\ [][Next]_vars

\* The ingestion pipeline in one run of the process with an empty inbox, in
\* interactive mode (the operator's answers make every outcome of the
\* unattended mode possible, and more) and allowed to reply
InitIngest == Init /\ cfg.test_mode /\ cfg.can_reply_to_content

SpecIngest == InitIngest /\ [][NextLoop]_vars


\* ------------------------------------------------- the trimming scenario
\* A feed of TrimPosts posts, post i created at hour i, all of them in the past
\* and within the reply window when the agent starts in interactive mode (the
\* operator can decline "Remove post from stream?", so the pending list grows);
\* one tick later the oldest post reaches the maximum age.
InitTrim ==
    /\ cfg = [ max_post_age_for_replying_hours |-> TrimPosts,
               max_history_length |-> 1,
               test_mode |-> TRUE,
               feed |-> "trim",
               max_queue |-> 1,
               max_tick |-> TrimPosts * TicksPerHour + 2,
               num_comments |-> 0,
               num_notes |-> 1,
               can_create_posts |-> TRUE,
               can_reply_to_content |-> TRUE,
               active_on_subreddits |-> { "active" } ]
    /\ now = TrimPosts * TicksPerHour + 1
    /\ submission_queue = << >>
    /\ history = << >>
    /\ streamed_submissions = << >>
    /\ until_timestamp = 0
    /\ state_file = AbsentFile
    /\ inbox = << >>
    /\ comments = << >>
    /\ pc = "construct"
    /\ producer = "not_started"
    /\ obs = NoObs

SpecTrim == InitTrim /\ [][NextLoop]_vars


\* ---------------------------------------------------- the queue scenario
\* The producer can run two posts ahead of the main thread, in interactive
\* mode and with an empty inbox
InitQueue ==
    /\ cfg = [ max_post_age_for_replying_hours |-> 1,
               max_history_length |-> 1,
               test_mode |-> TRUE,
               feed |-> "any",
               max_queue |-> 2,
               max_tick |-> 2,
               num_comments |-> 0,
               num_notes |-> 1,
               can_create_posts |-> TRUE,
               can_reply_to_content |-> TRUE,
               active_on_subreddits |-> { "active" } ]
    /\ now = 0
    /\ submission_queue = << >>
    /\ history = << >>
    /\ streamed_submissions = << >>
    /\ until_timestamp = 0
    /\ state_file = AbsentFile
    /\ inbox = << >>
    /\ comments = << >>
    /\ pc = "construct"
    /\ producer = "not_started"
    /\ obs = NoObs

SpecQueue == InitQueue /\ [][NextLoop]_vars


\* ------------------------------------------------ the drain loop scenario
\* stream_submissions_to_state followed get by get while the producer runs: the
\* call of startup (run_agent line 288, wait_once=True), then the calls of
\* handle_new_event (line 161, wait_once left False), on the finite feed of the
\* trimming scenario
InitDrainLoop ==
    /\ cfg = [ max_post_age_for_replying_hours |-> TrimPosts,
               max_history_length |-> 1,
               test_mode |-> TRUE,
               feed |-> "trim",
               max_queue |-> 2,
               max_tick |-> TrimPosts * TicksPerHour + 1,
               num_comments |-> 0,
               num_notes |-> 1,
               can_create_posts |-> TRUE,
               can_reply_to_content |-> TRUE,
               active_on_subreddits |-> { "active" } ]
    /\ now = TrimPosts * TicksPerHour + 1
    /\ submission_queue = << >>
    /\ history = << >>
    /\ streamed_submissions = << >>
    /\ until_timestamp = 0
    /\ state_file = AbsentFile
    /\ inbox = << >>
    /\ comments = << >>
    /\ pc = "loop_startup"
    /\ producer = "subscribed"
    /\ obs = NoObs

\* stream_submissions_to_state is entered
DrainCall ==
    /\ pc \in { "loop_startup", "loop_done" }
    /\ pc' = "loop_get"
    /\ obs' = [ NoObs EXCEPT !.loop = [ NoLoop EXCEPT !.wait_once = (pc = "loop_startup"),
                                                      !.startup = (pc = "loop_startup") ] ]
    /\ UNCHANGED << cfg, producer, now, submission_queue, state_vars, state_file,
                    inbox, comments >>

wait_once_after_get_Unchanged(wait_once) == wait_once

\* agent.py:29-33: a get(timeout=10) that returned an item clears wait_once
wait_once_after_get(wait_once) == IF wait_once THEN FALSE ELSE wait_once

\* Lines 34-41 on the item a get returned
GotItem ==
    LET d == drain_queue(<< Head(submission_queue) >>, streamed_submissions,
                         until_timestamp)
    IN  /\ submission_queue' = Tail(submission_queue)
        /\ streamed_submissions' = d.subs
        /\ until_timestamp' = d.until
        /\ obs' = [ obs EXCEPT !.loop.wait_once = wait_once_after_get(@),
                               !.loop.gets = @ + 1 ]
        /\ pc' = "loop_get"
        /\ UNCHANGED << history, state_file >>

\* One get of the loop: with wait_once get(timeout=10), which returns the head
\* of the queue or waits; otherwise get_nowait(), which returns the head or
\* raises queue.Empty, and the loop breaks
DrainGet ==
    /\ pc = "loop_get"
    /\ IF submission_queue # << >>
       THEN GotItem
       ELSE /\ IF obs.loop.wait_once
               THEN /\ pc' = "loop_blocked"
                    /\ obs' = [ obs EXCEPT !.loop.blocked = @ + 1 ]
               ELSE /\ pc' = "loop_filter"
                    /\ obs' = obs
            /\ UNCHANGED << submission_queue, state_vars, state_file >>
    /\ UNCHANGED << cfg, producer, now, inbox, comments >>

\* The main thread waits in get(timeout=10): an item is put and get returns
\* it, or the 10 seconds pass, get raises queue.Empty and the loop breaks
DrainWait ==
    /\ pc = "loop_blocked"
    /\ IF submission_queue # << >>
       THEN GotItem
       ELSE /\ pc' = "loop_filter"
            /\ UNCHANGED << submission_queue, state_vars, state_file, obs >>
    /\ UNCHANGED << cfg, producer, now, inbox, comments >>

\* Lines 44-53: the age filter, the trim and save_state; the call returns
DrainFinish ==
    /\ pc = "loop_filter"
    /\ LET kept == trim(submissions_newer_than_max_age(streamed_submissions, now,
                             cfg.max_post_age_for_replying_hours))
       IN  /\ streamed_submissions' = kept
           /\ state_file' = save_state([ history |-> history,
                                         streamed_submissions |-> kept,
                                         until_timestamp |-> until_timestamp ])
    /\ pc' = "loop_done"
    /\ UNCHANGED << cfg, producer, now, submission_queue, history, until_timestamp,
                    inbox, comments, obs >>

MainDrainLoop == DrainCall \/ DrainGet \/ DrainWait \/ DrainFinish

\* The main thread keeps running (a wait in get ends after 10 seconds at the
\* latest); nothing is assumed of the producer
SpecDrainLoop ==
    InitDrainLoop /\ [][MainDrainLoop \/ handle_submissions]_vars
                  /\ WF_vars(MainDrainLoop)


\* ----------------------------------------------- the interactive scenario
\* The loop in interactive mode, with comments arriving in the inbox
InitInteractive ==
    /\ cfg = [ max_post_age_for_replying_hours |-> 1,
               max_history_length |-> 1,
               test_mode |-> TRUE,
               feed |-> "any",
               max_queue |-> 1,
               max_tick |-> 1,
               num_comments |-> 1,
               num_notes |-> 1,
               can_create_posts |-> TRUE,
               can_reply_to_content |-> TRUE,
               active_on_subreddits |-> { "active" } ]
    /\ now = 0
    /\ submission_queue = << >>
    /\ history = << >>
    /\ streamed_submissions = << >>
    /\ until_timestamp = 0
    /\ state_file = AbsentFile
    /\ inbox = << >>
    /\ comments = << >>
    /\ pc = "construct"
    /\ producer = "not_started"
    /\ obs = NoObs

SpecInteractive == InitInteractive /\ [][NextLoop \/ InboxArrival]_vars

\* -------------------------------------------------- the history scenario
\* append_to_history called up to MaxAppends times under every
\* max_history_length of 0..MaxHistoryLength
InitHistory ==
    /\ cfg \in [ max_post_age_for_replying_hours : { 1 },
                 max_history_length : 0..MaxHistoryLength,
                 test_mode : { FALSE },
                 feed : { "any" },
                 max_queue : { MaxQueue },
                 max_tick : { MaxTick },
                 num_comments : { NumComments },
                 num_notes : { 2 },
                 can_create_posts : { TRUE },
                 can_reply_to_content : { TRUE },
                 active_on_subreddits : { { "active" } } ]
    /\ now = 0
    /\ submission_queue = << >>
    /\ history = << >>
    /\ streamed_submissions = << >>
    /\ until_timestamp = 0
    /\ state_file = AbsentFile
    /\ inbox = << >>
    /\ comments = << >>
    /\ pc = "history"
    /\ producer = "not_started"
    /\ obs = NoObs

AppendToHistoryCall ==
    /\ pc = "history"
    /\ Len(obs.appended) < MaxAppends
    /\ \E n \in 1..cfg.num_notes :
        /\ history' = append_to_history(history, HistoryItem(n), cfg.max_history_length)
        /\ obs' = [ obs EXCEPT !.appended = Append(@, HistoryItem(n)) ]
    /\ UNCHANGED << cfg, producer, now, submission_queue, streamed_submissions, until_timestamp,
                    state_file, inbox, comments, pc >>

SpecHistory == InitHistory /\ [][AppendToHistoryCall]_vars

\* ----------------------------------------------- the round-trip scenario
\* save_state on an arbitrary Agent State, then a new AgentEnv on the same file
RoundTripTimes == { 0, 1, TicksPerDay + 1 }

RoundTripItems == { HistoryItem(1), HistoryItem(2) }

RoundTripSubmissions == [ id : 1..NumIds, timestamp : RoundTripTimes ]

SeqsUpTo2(S) == { << >> } \cup { << a >> : a \in S } \cup { << a, b >> : a \in S, b \in S }

InitRoundTrip ==
    /\ cfg \in [ max_post_age_for_replying_hours : { 1 },
                 max_history_length : { 2 },
                 test_mode : { FALSE },
                 feed : { "any" },
                 max_queue : { MaxQueue },
                 max_tick : { MaxTick },
                 num_comments : { NumComments },
                 num_notes : { 2 },
                 can_create_posts : { TRUE },
                 can_reply_to_content : { TRUE },
                 active_on_subreddits : { { "active" } } ]
    /\ now = 0
    /\ submission_queue = << >>
    /\ history \in SeqsUpTo2(RoundTripItems)
    /\ streamed_submissions \in SeqsUpTo2(RoundTripSubmissions)
    /\ until_timestamp \in RoundTripTimes
    /\ state_file = AbsentFile
    /\ inbox = << >>
    /\ comments = << >>
    /\ pc = "round_trip"
    /\ producer = "not_started"
    /\ obs = NoObs

\* env.save_state(), after which the process ends
SaveStateCall ==
    /\ pc = "round_trip"
    /\ state_file' = save_state(CurrentState)
    /\ obs' = [ obs EXCEPT !.rt_orig = CurrentState, !.result = "saved" ]
    /\ history' = << >>
    /\ streamed_submissions' = << >>
    /\ until_timestamp' = 0
    /\ pc' = "construct"
    /\ UNCHANGED << cfg, producer, now, submission_queue, inbox, comments >>

SpecRoundTrip == InitRoundTrip /\ [][SaveStateCall \/ Construct]_vars

\* ---------------------------------------------------- the decode scenario
\* Command.decode on every command name, registered or not, with every
\* parameter list of 0..MaxArgs strings
CommandNames == DOMAIN registry \cup { "delete_post" }

ParameterStrings == { "a", "b" }

ParameterLists == UNION { [ 1..n -> ParameterStrings ] : n \in 0..MaxArgs }

Actions == [ command : CommandNames, parameters : ParameterLists ]

InitDecode ==
    /\ cfg \in [ max_post_age_for_replying_hours : { 1 },
                 max_history_length : { 1 },
                 test_mode : { FALSE },
                 feed : { "any" },
                 max_queue : { MaxQueue },
                 max_tick : { MaxTick },
                 num_comments : { NumComments },
                 num_notes : { 1 },
                 can_create_posts : { TRUE },
                 can_reply_to_content : { TRUE },
                 active_on_subreddits : { { "active" } } ]
    /\ now = 0
    /\ submission_queue = << >>
    /\ history = << >>
    /\ streamed_submissions = << >>
    /\ until_timestamp = 0
    /\ state_file = AbsentFile
    /\ inbox = << >>
    /\ comments = << >>
    /\ pc = "decode"
    /\ producer = "not_started"
    /\ \E a \in Actions : obs = [ NoObs EXCEPT !.call.input = a ]

DecodeCall ==
    /\ pc = "decode"
    /\ obs' = [ obs EXCEPT !.call.output = decode(obs.call.input) ]
    /\ pc' = "decoded"
    /\ UNCHANGED << cfg, producer, now, submission_queue, state_vars, state_file, inbox,
                    comments >>

SpecDecode == InitDecode /\ [][DecodeCall]_vars

\* --------------------------------------------- the seconds_to_hms scenario
\* Negative durations, every duration up to just over an hour, and every
\* duration from 23 hours to MaxSeconds
HmsInputs == (-2..3700) \cup (82800..MaxSeconds)

InitHms ==
    /\ cfg \in [ max_post_age_for_replying_hours : { 1 },
                 max_history_length : { 1 },
                 test_mode : { FALSE },
                 feed : { "any" },
                 max_queue : { MaxQueue },
                 max_tick : { MaxTick },
                 num_comments : { NumComments },
                 num_notes : { 1 },
                 can_create_posts : { TRUE },
                 can_reply_to_content : { TRUE },
                 active_on_subreddits : { { "active" } } ]
    /\ now = 0
    /\ submission_queue = << >>
    /\ history = << >>
    /\ streamed_submissions = << >>
    /\ until_timestamp = 0
    /\ state_file = AbsentFile
    /\ inbox = << >>
    /\ comments = << >>
    /\ pc = "hms"
    /\ producer = "not_started"
    /\ \E sec \in HmsInputs : obs = [ NoObs EXCEPT !.call.input = sec ]

SecondsToHmsCall ==
    /\ pc = "hms"
    /\ obs' = [ obs EXCEPT !.call.output = seconds_to_hms(obs.call.input) ]
    /\ pc' = "hms_done"
    /\ UNCHANGED << cfg, producer, now, submission_queue, state_vars, state_file, inbox,
                    comments >>

SpecHms == InitHms /\ [][SecondsToHmsCall]_vars

\* --------------------------------------------------- the execute scenario
\* One command executed in one environment: every command class, content
\* identifiers that exist (1) and do not (0), every way the platform can fail,
\* an account without posts or whose newest post was created at any tick up to
\* now, a pending list of 0..2 records and an inbox of 0..1 unread comments
ContentIds == [ prefix : { "t3_", "t1_", "x" }, id : { 0, 1 } ]

ExecCommands ==
    { [ cls |-> "ShowNewPost" ], [ cls |-> "ShowConversationWithNewActivity" ] }
    \cup { [ cls |-> "ReplyToContent", content_id |-> c, reply_text |-> "a" ] :
             c \in ContentIds }
    \cup { [ cls |-> "CreatePost", subreddit |-> sr, post_title |-> "a",
             post_text |-> "b" ] : sr \in { "active", "other" } }

Platforms ==
    [ fault : { "none", "read", "read_client", "write" },
      latest_submission :
          { [ exists |-> FALSE, created_utc |-> 0 ] }
          \cup { [ exists |-> TRUE, created_utc |-> c ] : c \in 0..MaxTick },
      submissions : { 1..NumIds },
      comments : { 1..NumComments } ]

InitExecute ==
    /\ cfg \in [ max_post_age_for_replying_hours : { 1 },
                 max_history_length : { 1 },
                 test_mode : BOOLEAN,
                 feed : { "any" },
                 max_queue : { MaxQueue },
                 max_tick : { MaxTick },
                 num_comments : { NumComments },
                 num_notes : { 1 },
                 can_create_posts : { TRUE },
                 can_reply_to_content : { TRUE },
                 minimum_time_between_posts_hours : { 1, 2 },
                 active_on_subreddits : { { "active" } } ]
    /\ now \in 0..MaxTick
    /\ submission_queue = << >>
    /\ history = << >>
    /\ streamed_submissions \in { << >>, << [ id |-> 1, timestamp |-> 1 ] >>,
                                  << [ id |-> 1, timestamp |-> 1 ],
                                     [ id |-> 2, timestamp |-> 2 ] >> }
    /\ until_timestamp = 0
    /\ state_file = AbsentFile
    /\ inbox \in { << >>, << 1 >> }
    /\ comments = << >>
    /\ pc = "execute"
    /\ producer = "not_started"
    /\ \E c \in ExecCommands, pf \in Platforms :
          /\ pf.latest_submission.created_utc <= now
          /\ obs = [ NoObs EXCEPT !.call.input = [ command |-> c, platform |-> pf ] ]

\* available(env) as it is at the time of execution, then command.execute(env)
ExecuteCall ==
    /\ pc = "execute"
    /\ LET self == obs.call.input.command
           env == Env(streamed_submissions, inbox, now, cfg, obs.call.input.platform)
           r == execute(self, env)
       IN  /\ streamed_submissions' = r.streamed_submissions
           /\ inbox' = r.inbox
           /\ obs' = [ obs EXCEPT !.call.output = [ available |-> available(self, env),
                                                    out |-> r.out ],
                                  !.write = r.write,
                                  !.rt_orig = CurrentState ]
    /\ pc' = "executed"
    /\ UNCHANGED << cfg, producer, now, submission_queue, history, until_timestamp, state_file,
                    comments >>

SpecExecute == InitExecute /\ [][ExecuteCall]_vars

\* ------------------------------------------------- the authorship scenario
\* The main loop on a feed where post 1 is the agent's own; the clock runs far
\* enough for a post to be older than the one hour window when it is yielded
InitProducer ==
    /\ cfg = [ max_post_age_for_replying_hours |-> 1,
               max_history_length |-> 1,
               test_mode |-> TRUE,
               feed |-> "authored",
               max_queue |-> 2,
               max_tick |-> 4,
               num_comments |-> 0,
               num_notes |-> 1,
               can_create_posts |-> TRUE,
               can_reply_to_content |-> TRUE,
               active_on_subreddits |-> { "active" } ]
    /\ now = 0
    /\ submission_queue = << >>
    /\ history = << >>
    /\ streamed_submissions = << >>
    /\ until_timestamp = 0
    /\ state_file = AbsentFile
    /\ inbox = << >>
    /\ comments = << >>
    /\ pc = "construct"
    /\ producer = "not_started"
    /\ obs = NoObs

SpecProducer == InitProducer /\ [][NextLoop]_vars

\* ----------------------------------------------------- the replay scenarios
\* The main loop in interactive mode on a feed that yields posts again: either
\* NumIds posts half an hour apart with a window of one hour, the clock running
\* until every post has aged out; or the feed of the trimming scenario, where
\* post 1 can come again after the trim has dropped it
InitReplay ==
    /\ \/ /\ cfg = [ max_post_age_for_replying_hours |-> 1,
                     max_history_length |-> 1,
                     test_mode |-> TRUE,
                     feed |-> "replay",
                     max_queue |-> 2,
                     max_tick |-> 4,
                     num_comments |-> 0,
                     num_notes |-> 1,
                     can_create_posts |-> TRUE,
                     can_reply_to_content |-> TRUE,
                     active_on_subreddits |-> { "active" } ]
          /\ now = 0
       \/ /\ cfg = [ max_post_age_for_replying_hours |-> TrimPosts,
                     max_history_length |-> 1,
                     test_mode |-> TRUE,
                     feed |-> "trim_replay",
                     max_queue |-> 1,
                     max_tick |-> TrimPosts * TicksPerHour + 1,
                     num_comments |-> 0,
                     num_notes |-> 1,
                     can_create_posts |-> TRUE,
                     can_reply_to_content |-> TRUE,
                     active_on_subreddits |-> { "active" } ]
          /\ now = TrimPosts * TicksPerHour + 1
    /\ submission_queue = << >>
    /\ history = << >>
    /\ streamed_submissions = << >>
    /\ until_timestamp = 0
    /\ state_file = AbsentFile
    /\ inbox = << >>
    /\ comments = << >>
    /\ pc = "construct"
    /\ producer = "not_started"
    /\ obs = NoObs

SpecReplay == InitReplay /\ [][NextLoop]_vars

\* --------------------------------------------------- the unattended scenario
\* The main loop in unattended mode on the feed of NumIds posts with fixed
\* creation times; the process can stop at any time and start again from the
\* state file
InitUnattended ==
    /\ cfg = [ max_post_age_for_replying_hours |-> 1,
               max_history_length |-> 1,
               test_mode |-> FALSE,
               feed |-> "replay",
               max_queue |-> 1,
               max_tick |-> 2,
               num_comments |-> 0,
               num_notes |-> 1,
               can_create_posts |-> TRUE,
               can_reply_to_content |-> TRUE,
               active_on_subreddits |-> { "active" } ]
    /\ now = 0
    /\ submission_queue = << >>
    /\ history = << >>
    /\ streamed_submissions = << >>
    /\ until_timestamp = 0
    /\ state_file = AbsentFile
    /\ inbox = << >>
    /\ comments = << >>
    /\ pc = "construct"
    /\ producer = "not_started"
    /\ obs = NoObs

SpecUnattended == InitUnattended /\ [][NextLoop \/ Kill]_vars

\* ---------------------------------------------------- the selection scenario
\* The main loop with the post part of handle_new_event in three steps, so
\* that the producer thread and the clock run between the selection of the
\* last pending record (line 180), the handling of the post (181-197) and the
\* removal (198-199)
InitSelect ==
    /\ cfg = [ max_post_age_for_replying_hours |-> 1,
               max_history_length |-> 1,
               test_mode |-> TRUE,
               feed |-> "any",
               max_queue |-> 1,
               max_tick |-> 2,
               num_comments |-> 0,
               num_notes |-> 1,
               can_create_posts |-> TRUE,
               can_reply_to_content |-> TRUE,
               active_on_subreddits |-> { "active" } ]
    /\ now = 0
    /\ submission_queue = << >>
    /\ history = << >>
    /\ streamed_submissions = << >>
    /\ until_timestamp = 0
    /\ state_file = AbsentFile
    /\ inbox = << >>
    /\ comments = << >>
    /\ pc = "construct"
    /\ producer = "not_started"
    /\ obs = NoObs

\* Lines 179-180: streamed_submissions[-1] is looked up on the platform
ReactSelect ==
    /\ pc = "react_post"
    /\ IF streamed_submissions = << >>
       THEN /\ pc' = "act"
            /\ obs' = [ obs EXCEPT !.result = "returned", !.write = NoWrite ]
       ELSE /\ pc' = "react_handle"
            /\ obs' = [ obs EXCEPT !.call.input =
                          [ selected |-> Last(streamed_submissions),
                            queued |-> Len(submission_queue) ] ]
    /\ UNCHANGED << cfg, producer, now, submission_queue, state_vars, state_file, inbox,
                    comments >>

\* Lines 181-197: the conversation tree of the selected post goes to the
\* provider and its reply, if any, is submitted
ReactHandle ==
    /\ pc = "react_handle"
    /\ \E c \in { [ prefix |-> "t3_", id |-> obs.call.input.selected.id ],
                  [ prefix |-> "t1_", id |-> 1 ] } :
       \E o \in ReplyOutcomes(c), n \in 1..cfg.num_notes :
          /\ reply_to_content(o, n)
          /\ obs' = [ obs EXCEPT !.write = o.write,
                                 !.handled = @ \cup { "post" },
                                 !.executed = o.executed,
                                 !.outcome = o.outcome,
                                 !.failed_write = o.failed_write,
                                 !.confirmed = o.confirmed,
                                 !.result = IF o.raised THEN "raised" ELSE @ ]
          /\ pc' = IF o.raised THEN "act" ELSE "react_remove"
    /\ UNCHANGED << cfg, producer, now, submission_queue, streamed_submissions,
                    until_timestamp, inbox, comments >>

del_last_Oldest(subs) == Tail(subs)

\* del env.state.streamed_submissions[-1]
del_last(subs) == Front(subs)

\* Lines 198-199
ReactRemove ==
    /\ pc = "react_remove"
    /\ \E remove \in Confirmations :
          /\ streamed_submissions' = IF do_execute(cfg.test_mode, remove)
                                     THEN del_last(streamed_submissions)
                                     ELSE streamed_submissions
          /\ obs' = [ obs EXCEPT !.result = "returned",
                                 !.confirmed = @ \cup Yes("remove", remove),
                                 !.call.output =
                                     [ removed |-> do_execute(cfg.test_mode, remove),
                                       queued |-> Len(submission_queue) ] ]
    /\ pc' = "act"
    /\ UNCHANGED << cfg, producer, now, submission_queue, history, until_timestamp,
                    state_file, inbox, comments >>

NextSelect ==
    \/ Tick
    \/ handle_submissions
    \/ Construct
    \/ StartupDrain
    \/ ReactDrain
    \/ ReactInbox
    \/ ReactSelect
    \/ ReactHandle
    \/ ReactRemove
    \/ Act

SpecSelect == InitSelect /\ [][NextSelect]_vars




\* ------------------------------------------------ the post creation scenario
\* The two ways to a new post, each called once: CreatePost.execute on every
\* name of SubredditNames, and perform_action on every submission the provider
\* can generate; the allow-list is written in lower case or capitalized
InitPost ==
    /\ cfg \in [ max_post_age_for_replying_hours : { 1 },
                 max_history_length : { 1 },
                 test_mode : BOOLEAN,
                 feed : { "any" },
                 max_queue : { MaxQueue },
                 max_tick : { MaxTick },
                 num_comments : { NumComments },
                 num_notes : { 1 },
                 can_create_posts : BOOLEAN,
                 can_reply_to_content : { TRUE },
                 minimum_time_between_posts_hours : { 1 },
                 active_on_subreddits : { { "active" }, { "Active" } } ]
    /\ now = MaxTick
    /\ submission_queue = << >>
    /\ history = << >>
    /\ streamed_submissions = << >>
    /\ until_timestamp = 0
    /\ state_file = AbsentFile
    /\ inbox = << >>
    /\ comments = << >>
    /\ producer = "not_started"
    /\ \E pf \in Platforms :
          \/ /\ pc = "execute"
             /\ \E sr \in SubredditNames :
                   obs = [ NoObs EXCEPT !.call.input =
                             [ command |-> [ cls |-> "CreatePost", subreddit |-> sr,
                                             post_title |-> "a", post_text |-> "b" ],
                               platform |-> pf ] ]
          \/ /\ pc = "perform_action"
             /\ ~ pf.latest_submission.exists
             /\ \E before \in { "not_eligible", "raises", "eligible" },
                   submission \in { "None" } \cup SubredditNames,
                   answer \in Confirmations :
                   obs = [ NoObs EXCEPT !.call.input =
                             [ before |-> before, submission |-> submission,
                               answer |-> answer, platform |-> pf ] ]

PerformActionCall ==
    /\ pc = "perform_action"
    /\ LET r == perform_action(
                    Env(streamed_submissions, inbox, now, cfg, obs.call.input.platform),
                    obs.call.input.before, obs.call.input.submission,
                    obs.call.input.answer)
       IN  obs' = [ obs EXCEPT !.call.output = r, !.write = r.write,
                               !.confirmed = r.confirmed ]
    /\ pc' = "performed"
    /\ UNCHANGED << cfg, producer, now, submission_queue, state_vars, state_file, inbox,
                    comments >>

SpecPost == InitPost /\ [][ExecuteCall \/ PerformActionCall]_vars

\* ------------------------------------------ the conversation tree scenarios
\* Every forest of 0..MaxNodes comments, listed in preorder, whose scores are
\* drawn from one palette. get_comment_tree is called with every budget of
\* 0..MaxNodes on three palettes: scores within the initial [low, high] of the
\* search; scores one step of widening below and above it; scores two steps
\* below and above it. get_cropped_tree is called on the first palette with
\* None and with every threshold at, between and above its scores.
Palettes == { { 1, 5, 10 }, { 0, 5, 600 }, { -300, 1, 800 } }

Scores == UNION Palettes

Thresholds == { None } \cup { Some(t) : t \in { 1, 5, 6, 10, 11 } }

RECURSIVE AncestorsOrSelf(_, _)
AncestorsOrSelf(parent, i) ==
    IF i = 0 THEN { 0 } ELSE { i } \cup AncestorsOrSelf(parent, parent[i])

\* The parent vectors of the forests of n comments listed in preorder
ParentVectors(n) ==
    { q \in [ 1..n -> 0..(n - 1) ] :
        \A i \in 1..n : /\ q[i] < i
                        /\ i > 1 => q[i] \in AncestorsOrSelf(q, i - 1) }

CropPalettes == { { 1, 5, 10 } }

InitTree ==
    /\ cfg \in [ max_post_age_for_replying_hours : { 1 },
                 max_history_length : { 1 },
                 test_mode : { FALSE },
                 feed : { "any" },
                 max_queue : { MaxQueue },
                 max_tick : { MaxTick },
                 num_comments : { NumComments },
                 num_notes : { 1 },
                 can_create_posts : { TRUE },
                 can_reply_to_content : { TRUE },
                 active_on_subreddits : { { "active" } } ]
    /\ now = 0
    /\ submission_queue = << >>
    /\ history = << >>
    /\ streamed_submissions = << >>
    /\ until_timestamp = 0
    /\ state_file = AbsentFile
    /\ inbox = << >>
    /\ comments = << >>
    /\ pc = "tree"
    /\ producer = "not_started"
    /\ \E n \in 0..MaxNodes, P \in Palettes, b \in 0..MaxNodes :
       \E p \in ParentVectors(n), sc \in [ 1..n -> P ] :
          obs = [ NoObs EXCEPT !.call.input =
                    [ comments |-> [ parent |-> p, score |-> sc ], max_size |-> b ] ]

GetCommentTreeCall ==
    /\ pc = "tree"
    /\ obs' = [ obs EXCEPT !.call.output =
                    get_comment_tree(obs.call.input.comments, obs.call.input.max_size) ]
    /\ pc' = "tree_done"
    /\ UNCHANGED << cfg, producer, now, submission_queue, state_vars, state_file, inbox,
                    comments >>

SpecTree == InitTree /\ [][GetCommentTreeCall]_vars

InitCrop ==
    /\ cfg \in [ max_post_age_for_replying_hours : { 1 },
                 max_history_length : { 1 },
                 test_mode : { FALSE },
                 feed : { "any" },
                 max_queue : { MaxQueue },
                 max_tick : { MaxTick },
                 num_comments : { NumComments },
                 num_notes : { 1 },
                 can_create_posts : { TRUE },
                 can_reply_to_content : { TRUE },
                 active_on_subreddits : { { "active" } } ]
    /\ now = 0
    /\ submission_queue = << >>
    /\ history = << >>
    /\ streamed_submissions = << >>
    /\ until_timestamp = 0
    /\ state_file = AbsentFile
    /\ inbox = << >>
    /\ comments = << >>
    /\ pc = "crop"
    /\ producer = "not_started"
    /\ \E n \in 0..MaxNodes, P \in CropPalettes, t \in Thresholds :
       \E p \in ParentVectors(n), sc \in [ 1..n -> P ] :
          obs = [ NoObs EXCEPT !.call.input =
                    [ tree |-> get_comment_tree_recursive(
                                   [ parent |-> p, score |-> sc ], 0),
                      min_score_threshold |-> t ] ]

GetCroppedTreeCall ==
    /\ pc = "crop"
    /\ obs' = [ obs EXCEPT !.call.output =
                    get_cropped_tree(obs.call.input.tree,
                                     obs.call.input.min_score_threshold) ]
    /\ pc' = "crop_done"
    /\ UNCHANGED << cfg, producer, now, submission_queue, state_vars, state_file, inbox,
                    comments >>

SpecCrop == InitCrop /\ [][GetCroppedTreeCall]_vars

\* ------------------------------------------- the threshold search scenario
\* get_comment_tree's decision to search, then find_min_score_threshold one
\* loop iteration at a time, on every forest of 0..MaxNodes comments and
\* every budget, with scores below and above the initial [1, 500] or with
\* scores inside and above it
SearchPalettes == { { -300, 800 }, { 5, 600 } }

SearchTree == get_comment_tree_recursive(obs.call.input.comments, 0)

SearchSize(threshold) == get_tree_size(Some(threshold), SearchTree)

InitSearch ==
    /\ cfg \in [ max_post_age_for_replying_hours : { 1 },
                 max_history_length : { 1 },
                 test_mode : { FALSE },
                 feed : { "any" },
                 max_queue : { MaxQueue },
                 max_tick : { MaxTick },
                 num_comments : { NumComments },
                 num_notes : { 1 },
                 can_create_posts : { TRUE },
                 can_reply_to_content : { TRUE },
                 active_on_subreddits : { { "active" } } ]
    /\ now = 0
    /\ submission_queue = << >>
    /\ history = << >>
    /\ streamed_submissions = << >>
    /\ until_timestamp = 0
    /\ state_file = AbsentFile
    /\ inbox = << >>
    /\ comments = << >>
    /\ pc = "search_call"
    /\ producer = "not_started"
    /\ \E n \in 0..MaxNodes, P \in SearchPalettes, b \in 0..MaxNodes :
       \E p \in ParentVectors(n), sc \in [ 1..n -> P ] :
          obs = [ NoObs EXCEPT !.call.input =
                    [ comments |-> [ parent |-> p, score |-> sc ], max_size |-> b ] ]

\* get_comment_tree, lines 194-198: the search is entered with low = 1 and
\* high = 500, and find_min_score_threshold computes mid before its loops
SearchCall ==
    /\ pc = "search_call"
    /\ IF get_tree_size(None, SearchTree) >= obs.call.input.max_size
       THEN /\ obs' = [ obs EXCEPT !.call.output =
                          [ low |-> 1, high |-> 500, mid |-> (1 + 500) \div 2,
                            returned |-> None ] ]
            /\ pc' = "expand_low"
       ELSE /\ obs' = obs
            /\ pc' = "search_skipped"
    /\ UNCHANGED << cfg, producer, now, submission_queue, state_vars, state_file, inbox,
                    comments >>

widen_low_Stuck(low, mid) == low - Max(low - mid, 0)

\* low = low - max(mid - low, 5)
widen_low(low, mid) == low - Max(mid - low, 5)

\* high = high + max(high - mid, 5)
widen_high(high, mid) == high + Max(high - mid, 5)

\* One test of `while get_tree_size(low, tree) < desired_size`
ExpandLow ==
    /\ pc = "expand_low"
    /\ LET st == obs.call.output IN
       IF SearchSize(st.low) < obs.call.input.max_size
       THEN /\ obs' = [ obs EXCEPT !.call.output.low = widen_low(st.low, st.mid) ]
            /\ pc' = pc
       ELSE /\ obs' = obs
            /\ pc' = "expand_high"
    /\ UNCHANGED << cfg, producer, now, submission_queue, state_vars, state_file, inbox,
                    comments >>

\* One test of `while get_tree_size(high, tree) > desired_size`
ExpandHigh ==
    /\ pc = "expand_high"
    /\ LET st == obs.call.output IN
       IF SearchSize(st.high) > obs.call.input.max_size
       THEN /\ obs' = [ obs EXCEPT !.call.output.high = widen_high(st.high, st.mid) ]
            /\ pc' = pc
       ELSE /\ obs' = obs
            /\ pc' = "bisect"
    /\ UNCHANGED << cfg, producer, now, submission_queue, state_vars, state_file, inbox,
                    comments >>

\* One test of `while low <= high`, with the body or the final return
Bisect ==
    /\ pc = "bisect"
    /\ LET st == obs.call.output
           mid == (st.low + st.high) \div 2
           size == SearchSize(mid)
       IN  IF st.low <= st.high
           THEN IF size = obs.call.input.max_size
                THEN /\ obs' = [ obs EXCEPT !.call.output.mid = mid,
                                            !.call.output.returned = Some(mid) ]
                     /\ pc' = "search_done"
                ELSE IF size < obs.call.input.max_size
                THEN /\ obs' = [ obs EXCEPT !.call.output.mid = mid,
                                            !.call.output.high = mid - 1 ]
                     /\ pc' = pc
                ELSE /\ obs' = [ obs EXCEPT !.call.output.mid = mid,
                                            !.call.output.low = mid + 1 ]
                     /\ pc' = pc
           ELSE /\ obs' = [ obs EXCEPT !.call.output.returned = Some(st.low) ]
                /\ pc' = "search_done"
    /\ UNCHANGED << cfg, producer, now, submission_queue, state_vars, state_file, inbox,
                    comments >>

SearchStep == SearchCall \/ ExpandLow \/ ExpandHigh \/ Bisect

SpecSearch == InitSearch /\ [][SearchStep]_vars /\ WF_vars(SearchStep)


\* ======================================================== the properties

\* C1: no two records of the pending list carry the same post identifier.
NoDuplicateIds ==
    \A i, j \in 1..Len(streamed_submissions) :
        i # j => streamed_submissions[i].id # streamed_submissions[j].id

\* A drain met, with a later creation time, the identifier of a pending record
NoDuplicateIds_Witness ==
    /\ obs.drain.just_drained
    /\ obs.drain.skipped_already
    /\ streamed_submissions # << >>

\* C2: in a running process no step lowers the high-water timestamp.
WatermarkNeverDecreases ==
    [][pc' # "construct" => until_timestamp' >= until_timestamp]_vars

\* A drain met a post created at or before the watermark it had already reached
WatermarkNeverDecreases_Witness ==
    /\ obs.drain.just_drained
    /\ obs.drain.skipped_stale
    /\ until_timestamp > 0

\* C3: right after a drain every pending record was created strictly later than
\* the time of filtering minus max_post_age_for_replying_hours.
PendingYoungAfterDrain ==
    obs.drain.just_drained =>
        \A i \in 1..Len(streamed_submissions) :
            streamed_submissions[i].timestamp >
                obs.drain.filter_now - cfg.max_post_age_for_replying_hours * TicksPerHour

\* A drain removed a record that had reached the maximum age and kept a younger one
PendingYoungAfterDrain_Witness ==
    /\ obs.drain.just_drained
    /\ obs.drain.removed_old
    /\ streamed_submissions # << >>

\* C4: right after a drain the pending list holds at most 8 records, all of them
\* survivors of the age filter, and when more than 8 survive the 8 kept are the
\* ones created most recently.
TrimKeepsMostRecent ==
    obs.drain.just_drained =>
        LET kept == Range(streamed_submissions)
            dropped == Range(obs.drain.survivors) \ kept
        IN  /\ Len(streamed_submissions) <= 8
            /\ kept \subseteq Range(obs.drain.survivors)
            /\ Len(obs.drain.survivors) > 8 => Len(streamed_submissions) = 8
            /\ Len(obs.drain.survivors) <= 8 => dropped = {}
            /\ \A k \in kept, d \in dropped : d.timestamp <= k.timestamp

\* More than 8 records survived the age filter of a drain
TrimKeepsMostRecent_Witness ==
    /\ obs.drain.just_drained
    /\ Len(obs.drain.survivors) > 8

\* C5: the pending list is strictly ordered by creation time.
PendingOrderedByCreation ==
    \A i, j \in 1..Len(streamed_submissions) :
        i < j => streamed_submissions[i].timestamp < streamed_submissions[j].timestamp

\* A drain dropped a post that arrived out of order and left two records pending
PendingOrderedByCreation_Witness ==
    /\ obs.drain.just_drained
    /\ obs.drain.skipped_stale
    /\ Len(streamed_submissions) >= 2


\* C6: after every append_to_history call the history holds at most
\* max_history_length entries, and they are the most recently appended ones in
\* append order.
HistoryKeepsMostRecent ==
    pc = "history" =>
        /\ Len(history) <= cfg.max_history_length
        /\ history = SubSeq(obs.appended,
                            Len(obs.appended) - Min(cfg.max_history_length,
                                                    Len(obs.appended)) + 1,
                            Len(obs.appended))

SaveIsAtomic ==
    pc = "construct" => state_file.kind \in { "absent", "complete" }

\* C9: when the react phase or the act phase has returned normally, the state
\* file holds the in-memory Agent State.
PersistedAfterPhase ==
    (pc \in { "act", "react" } /\ obs.result = "returned") =>
        state_file = save_state(CurrentState)

\* C10: a react phase that started with an unread inbox comment and a pending
\* post handles the inbox comment only, and the pending list is as the phase
\* found it.
InboxTakesPrecedence ==
    (pc = "act" /\ obs.result = "returned" /\ "inbox" \in obs.handled
                /\ obs.phase_pending # << >>) =>
        /\ "post" \notin obs.handled
        /\ streamed_submissions = obs.phase_pending

\* C11: decode of a registered command name with a parameter list whose length
\* differs from the number of declared parameter names fails and constructs no
\* instance.
DecodeRejectsWrongArity ==
    (pc = "decoded" /\ obs.call.input.command \in DOMAIN registry
        /\ Len(obs.call.input.parameters)
             # Len(registry[obs.call.input.command].parameter_names)) =>
        /\ obs.call.output.raised = "ValueError"
        /\ obs.call.output.instance = NoInstance

\* reply_to_content was decoded with three parameters, one more than it declares
DecodeRejectsWrongArity_Witness ==
    /\ pc = "decoded"
    /\ obs.call.input.command = "reply_to_content"
    /\ Len(obs.call.input.parameters) = 3
    /\ obs.call.output.raised = "ValueError"

\* C12: decode of a name that is not a key of the registry fails without
\* constructing an instance and without calling any instance_decode; decode of
\* a registered name with the declared number of parameters returns an instance
\* of the registered class whose fields are the parameters in positional order.
DecodeUnknownOrPositional ==
    pc = "decoded" =>
        LET a == obs.call.input
            r == obs.call.output
        IN  /\ a.command \notin DOMAIN registry =>
                /\ r.raised = "ValueError"
                /\ r.instance = NoInstance
                /\ r.decoded_by = "none"
            /\ (a.command \in DOMAIN registry
                  /\ Len(a.parameters) = Len(registry[a.command].parameter_names)) =>
                /\ r.raised = "none"
                /\ r.instance.cls = registry[a.command].command
                /\ a.command = "reply_to_content" =>
                      /\ r.instance.content_id = a.parameters[1]
                      /\ r.instance.reply_text = a.parameters[2]
                /\ a.command = "create_post" =>
                      /\ r.instance.subreddit = a.parameters[1]
                      /\ r.instance.post_title = a.parameters[2]
                      /\ r.instance.post_text = a.parameters[3]

\* create_post was decoded from three parameters of which the first two differ
DecodeUnknownOrPositional_Witness ==
    /\ pc = "decoded"
    /\ obs.call.input.command = "create_post"
    /\ obs.call.input.parameters = << "a", "b", "a" >>
    /\ obs.call.output.instance.cls = "CreatePost"


\* C16: for s >= 0, seconds_to_hms(s) is "<h>h" iff h > 0, then "<m>m" iff
\* m > 0 and h < 24, then "<sec>s" iff sec > 0 and h = 0, with h = s div 3600,
\* m = (s mod 3600) div 60, sec = s mod 60; it is "0s" exactly when s = 0; the
\* duration it denotes never exceeds s; for s < 0 it raises instead of
\* returning a string.
UnitSeconds(unit) == CASE unit = "h" -> 3600 [] unit = "m" -> 60 [] unit = "s" -> 1

RECURSIVE DenotedSeconds(_)
DenotedSeconds(parts) ==
    IF parts = << >> THEN 0
    ELSE Head(parts).n * UnitSeconds(Head(parts).unit) + DenotedSeconds(Tail(parts))

HmsFormat ==
    pc = "hms_done" =>
        LET s == obs.call.input
            r == obs.call.output
            h == s \div 3600
            m == (s % 3600) \div 60
            sec == s % 60
            has(unit) == \E i \in 1..Len(r.value) : r.value[i].unit = unit
            at(unit) == CHOOSE i \in 1..Len(r.value) : r.value[i].unit = unit
        IN  IF s < 0
            THEN r.raised = "ValueError" /\ r.value = << >>
            ELSE /\ r.raised = "none"
                 /\ (r.value = << Part(0, "s") >>) <=> (s = 0)
                 /\ s > 0 =>
                      /\ has("h") <=> (h > 0)
                      /\ has("m") <=> (m > 0 /\ h < 24)
                      /\ has("s") <=> (sec > 0 /\ h = 0)
                      /\ has("h") => r.value[at("h")].n = h
                      /\ has("m") => r.value[at("m")].n = m
                      /\ has("s") => r.value[at("s")].n = sec
                      /\ \A i, j \in 1..Len(r.value) :
                            i < j => UnitSeconds(r.value[i].unit)
                                       > UnitSeconds(r.value[j].unit)
                 /\ DenotedSeconds(r.value) <= s

\* 86461 seconds (24h 1m 1s) were formatted as "24h"
HmsFormat_Witness ==
    /\ pc = "hms_done"
    /\ obs.call.input = 86461
    /\ obs.call.output.value = << Part(24, "h") >>


UnavailableHasNoEffect ==
    (pc = "executed" /\ obs.call.output.available = Available(FALSE)) =>
        /\ obs.write = NoWrite
        /\ CurrentState = obs.rt_orig

\* create_post was executed, on a subreddit the agent is active on and with a
\* working platform, before the minimum time since the last post had passed
UnavailableHasNoEffect_Witness ==
    /\ pc = "executed"
    /\ obs.call.output.available = Available(FALSE)
    /\ obs.call.input.command.cls = "CreatePost"
    /\ obs.call.input.command.subreddit = "active"
    /\ obs.call.input.platform.fault = "none"

\* C15: with a readable platform and an account that has posted, create_post
\* executed less than minimum_time_between_posts_hours after the newest post
\* is unavailable, submits nothing and returns an error carrying the formatted
\* remaining wait max(0, lastPostTime + minInterval - now) (1800 seconds as
\* "30m"); from the minimum on it is available.
RateGating ==
    (pc = "executed" /\ obs.call.input.command.cls = "CreatePost"
        /\ obs.call.input.platform.fault \notin { "read", "read_client" }
        /\ obs.call.input.platform.latest_submission.exists) =>
        LET last == obs.call.input.platform.latest_submission.created_utc * SecondsPerTick
            min_interval == cfg.minimum_time_between_posts_hours * 3600
            t == now * SecondsPerTick
            remaining == Max(0, last + min_interval - t)
            out == obs.call.output.out
        IN  /\ (t - last < min_interval) =>
                /\ obs.call.output.available = Available(FALSE)
                /\ obs.write = NoWrite
                /\ out.raised = "none"
                /\ DOMAIN out.map = { "error" }
                /\ out.map["error"].wait =
                      PartIf(remaining \div 3600 > 0, remaining \div 3600, "h")
                      \o PartIf((remaining % 3600) \div 60 > 0,
                                (remaining % 3600) \div 60, "m")
                /\ remaining = 1800 => out.map["error"].wait = << Part(30, "m") >>
            /\ (t - last >= min_interval) => obs.call.output.available = Available(TRUE)

\* create_post was executed 30 minutes after the last post with a minimum of
\* one hour, and the error carries "30m"
RateGating_Witness ==
    /\ pc = "executed"
    /\ obs.call.input.command.cls = "CreatePost"
    /\ cfg.minimum_time_between_posts_hours = 1
    /\ obs.call.input.platform.fault = "none"
    /\ obs.call.input.platform.latest_submission.exists
    /\ (now - obs.call.input.platform.latest_submission.created_utc) * SecondsPerTick = 1800
    /\ obs.write = NoWrite
    /\ obs.call.output.out.map = "error" :> NotEnoughTime(1800)


\* C17: a platform write that raises (a reply, mark_read, the submit of the act
\* phase) is turned into an `error` outcome of the action.
WriteFailureBecomesError ==
    obs.failed_write # "none" => obs.outcome = "error"

\* C18: when the react or the act phase has executed an action (a reply or a
\* post creation), the newest history entry carries the action's outcome.
CarriesOutcome(item, outcome) ==
    /\ "action_result" \in DOMAIN item
    /\ item.action_result = outcome

ExecutedActionIsAudited ==
    obs.executed =>
        /\ history # << >>
        /\ CarriesOutcome(Last(history), obs.outcome)

\* C19: in the running loop every way out of the react phase, an exception
\* included, leads to the act phase, every way out of the act phase leads to
\* the next react phase, and the loop never ends.
LoopSurvivesExceptions ==
    [][ /\ (pc \in { "react", "react_inbox", "react_post" }
              /\ pc' \notin { "react", "react_inbox", "react_post" }) => pc' = "act"
        /\ (pc = "act" /\ pc' # "act") => pc' = "react"
        /\ Running => Running' ]_vars

\* handle_new_event has just raised and the act phase is next
LoopSurvivesExceptions_Witness ==
    /\ pc = "act"
    /\ obs.result = "raised"

\* C20: while the loop runs the producer stays subscribed to the feed: an error
\* of the subscription does not end it (it retries), so later posts can still
\* be enqueued.
ProducerSurvivesStreamError ==
    Running => producer = "subscribed"


\* C21: a step of the producer thread appends one item to the tail of the
\* queue and leaves the pending list, the watermark, the history and the state
\* file as they are; every step that changes one of these is a step of the main
\* thread (each of which moves pc); and a drain gets the items of the queue in
\* the order in which they were put, leaving the queue empty.
ProducerOnlyPushes ==
    [][ /\ Len(submission_queue') > Len(submission_queue) =>
              /\ submission_queue' = Append(submission_queue, Last(submission_queue'))
              /\ UNCHANGED << state_vars, state_file, pc >>
        /\ (state_vars' # state_vars \/ state_file' # state_file) =>
              /\ pc' # pc
              /\ Len(submission_queue') <= Len(submission_queue)
        /\ (pc' # pc /\ obs'.drain.just_drained) =>
              /\ obs'.drain.consumed = submission_queue
              /\ submission_queue' = << >> ]_vars

\* A drain got two different posts that the producer had put while the main
\* thread was between drains, and both are pending in the order of the puts
ProducerOnlyPushes_Witness ==
    /\ obs.drain.just_drained
    /\ pc = "react_inbox"
    /\ Len(obs.drain.consumed) = 2
    /\ obs.drain.consumed[1].id # obs.drain.consumed[2].id
    /\ Len(streamed_submissions) = 2
    /\ streamed_submissions[1].id = obs.drain.consumed[1].id
    /\ streamed_submissions[2].id = obs.drain.consumed[2].id

\* C22: one stream_submissions_to_state call waits in a get at most once, and
\* only the call of startup with wait_once set does; a get without wait_once
\* that finds the queue empty ends the loop at once; and on a feed of finitely
\* many posts every call returns.
InDrainLoop == pc \in { "loop_get", "loop_blocked", "loop_filter" }

DrainBlocksAtMostOnce ==
    /\ [](/\ obs.loop.blocked <= 1
          /\ obs.loop.blocked = 1 => obs.loop.startup
          /\ pc = "loop_blocked" => (obs.loop.wait_once /\ obs.loop.gets = 0))
    /\ [][ /\ (pc = "loop_get" /\ pc' = "loop_blocked") =>
                  (obs.loop.wait_once /\ submission_queue = << >>)
           /\ (pc = "loop_get" /\ ~ obs.loop.wait_once /\ submission_queue = << >>
                 /\ pc' # pc) => pc' = "loop_filter"
           /\ (InDrainLoop /\ pc' = "loop_filter" /\ pc' # pc) =>
                  submission_queue = << >> ]_vars
    /\ (InDrainLoop ~> pc = "loop_done")

\* The call of startup waited once, then got two posts without waiting, and
\* has returned
DrainBlocksAtMostOnce_Witness ==
    /\ pc = "loop_done"
    /\ obs.loop.startup
    /\ obs.loop.blocked = 1
    /\ obs.loop.gets >= 2

\* C23: when the materialized tree has at least max_size replies, the tree
\* get_comment_tree returns has at most max_size replies; it has exactly
\* max_size when some threshold yields exactly max_size, and otherwise the
\* largest count below max_size that any threshold yields.
\* (A threshold yields the count of the smallest score at or above it, or of a
\* threshold above every score.)
AchievableSizes(tree) ==
    { get_tree_size(Some(t), tree) : t \in Scores \cup { 801 } }

CroppedWithinBudget ==
    (pc = "tree_done"
       /\ get_tree_size(None, obs.call.output.comment_tree) >= obs.call.input.max_size) =>
        LET B == obs.call.input.max_size
            count == get_tree_size(None, obs.call.output.replies)
            sizes == AchievableSizes(obs.call.output.comment_tree)
        IN  /\ count <= B
            /\ B \in sizes => count = B
            /\ B \notin sizes =>
                  /\ count \in sizes
                  /\ \A a \in sizes : a < B => a <= count

\* The tree 10 -> {5 -> {1}, 5} was cropped with a budget of 2, which no
\* threshold yields, and one reply is left
CroppedWithinBudget_Witness ==
    /\ pc = "tree_done"
    /\ obs.call.input.comments = [ parent |-> << 0, 1, 2, 1 >>,
                                   score |-> << 10, 5, 1, 5 >> ]
    /\ obs.call.input.max_size = 2
    /\ get_tree_size(None, obs.call.output.replies) = 1

\* C24: when some threshold yields exactly max_size (and a lower one yields
\* more), the threshold find_min_score_threshold returns is the smallest one
\* that yields max_size: the threshold one below it yields a different size.
ThresholdIsMinimal ==
    (pc = "tree_done"
       /\ get_tree_size(None, obs.call.output.comment_tree) > obs.call.input.max_size
       /\ obs.call.input.max_size \in AchievableSizes(obs.call.output.comment_tree)) =>
        LET t == obs.call.output.min_score_threshold.value
        IN  /\ get_tree_size(Some(t), obs.call.output.comment_tree)
                 = obs.call.input.max_size
            /\ get_tree_size(Some(t - 1), obs.call.output.comment_tree)
                 # obs.call.input.max_size

\* C25: get_cropped_tree returns exactly the replies whose own score and whose
\* ancestors' scores all reach the threshold; each of them has the score and
\* the parent it has in the original tree; the replies come in their original
\* relative order; and their number is get_tree_size of the original tree at
\* the same threshold.
RECURSIVE Preorder(_, _)
Preorder(tree, parent) ==
    IF tree = << >> THEN << >>
    ELSE << [ content_id |-> Head(tree).content_id, parent |-> parent,
              score |-> Head(tree).score ] >>
         \o Preorder(Head(tree).replies, Head(tree).content_id)
         \o Preorder(Tail(tree), parent)

RECURSIVE ChainReaches(_, _, _)
ChainReaches(nodes, node, t) ==
    /\ t.is_none \/ node.score >= t.value
    /\ node.parent # 0 =>
          ChainReaches(nodes, CHOOSE m \in nodes : m.content_id = node.parent, t)

CropIsExact ==
    pc = "crop_done" =>
        LET t == obs.call.input.min_score_threshold
            orig == Preorder(obs.call.input.tree, 0)
            res == Preorder(obs.call.output, 0)
            kept(node) == ChainReaches(Range(orig), node, t)
        IN  /\ Range(res) = { node \in Range(orig) : kept(node) }
            /\ res = SelectSeq(orig, kept)
            /\ Len(res) = get_tree_size(t, obs.call.input.tree)

\* A reply that reaches the threshold was dropped with its parent, and two
\* replies were retained
CropIsExact_Witness ==
    /\ pc = "crop_done"
    /\ ~ obs.call.input.min_score_threshold.is_none
    /\ Len(Preorder(obs.call.output, 0)) = 2
    /\ \E node \in Range(Preorder(obs.call.input.tree, 0)) :
          /\ node.score >= obs.call.input.min_score_threshold.value
          /\ node \notin Range(Preorder(obs.call.output, 0))

NoReplyWhenDisabled ==
    ~ cfg.can_reply_to_content =>
        obs.write.kind \notin { "reply_post", "reply_comment" }

\* C28: in interactive mode, a step of the react or the act phase replies (or
\* tries to) only if the operator answered yes to "Submit the reply?", marks
\* the inbox comment read only after a yes to "Mark comment as read?", removes
\* the pending post only after a yes to "Remove post from stream?" and
\* submits a new post (or tries to) only after a yes to "Execute the action?";
\* so a step in which every prompt was declined writes nothing and leaves the
\* inbox and the pending list as they are. (The drain that opens the react
\* phase ages and trims the pending list without asking.)
ConfirmedBeforeActing ==
    [][ (cfg.test_mode /\ pc \in { "react_inbox", "react_post", "act" } /\ pc' # pc) =>
          /\ (obs'.write.kind \in { "reply_post", "reply_comment" }
                \/ obs'.failed_write = "reply") => "reply" \in obs'.confirmed
          /\ (obs'.write.kind = "submit" \/ obs'.failed_write = "submit")
                => "execute" \in obs'.confirmed
          /\ (inbox' # inbox \/ obs'.failed_write = "mark_read")
                => "mark_read" \in obs'.confirmed
          /\ streamed_submissions' # streamed_submissions
                => (pc = "react_post" /\ "remove" \in obs'.confirmed)
          /\ obs'.confirmed = {} =>
                (obs'.write = NoWrite /\ UNCHANGED << inbox, streamed_submissions >>)
      ]_vars

\* The operator had the reply to a pending post submitted and declined to
\* remove the post from the pending list
ConfirmedBeforeActing_Witness ==
    /\ cfg.test_mode
    /\ pc = "act"
    /\ obs.write.kind = "reply_post"
    /\ obs.confirmed = { "reply" }
    /\ "post" \in obs.handled
    /\ streamed_submissions # << >>

\* C29: a post is submitted only to a subreddit of active_on_subreddits (for
\* perform_action, which submits to the canonical name, up to the case of the
\* letters, which the platform ignores); a request that names no subreddit of
\* the allow-list makes no submit call, and when it is executed (the time
\* since the last post allows it and the operator does not decline) its
\* outcome is an `error`.
NamesActiveSubreddit(name) ==
    canonicalize_subreddit_name(name)
        \in { canonicalize_subreddit_name(a) : a \in cfg.active_on_subreddits }

PostsOnlyWhereActive ==
    /\ pc = "executed" =>
          LET self == obs.call.input.command
              out == obs.call.output.out
          IN  /\ obs.write.kind = "submit" =>
                    self.subreddit \in cfg.active_on_subreddits
              /\ ~ NamesActiveSubreddit(self.subreddit) =>
                    /\ obs.write = NoWrite
                    /\ out.raised = "none"
                    /\ DOMAIN out.map = { "error" }
    /\ pc = "performed" =>
          LET in == obs.call.input
              r == obs.call.output
          IN  /\ r.write.kind = "submit" =>
                    \E a \in cfg.active_on_subreddits : lower(r.target) = lower(a)
              /\ (in.submission # "None" /\ ~ NamesActiveSubreddit(in.submission)) =>
                    /\ r.write = NoWrite
                    /\ r.failed_write = "none"
                    /\ (cfg.can_create_posts /\ in.before = "eligible"
                          /\ (~ cfg.test_mode \/ in.answer)) =>
                            (r.returned /\ r.outcome = "error")

\* perform_action, with the allow-list ["Active"], submitted the post that the
\* provider addressed to "r/active"
PostsOnlyWhereActive_Witness ==
    /\ pc = "performed"
    /\ cfg.active_on_subreddits = { "Active" }
    /\ obs.call.input.submission = "r/active"
    /\ obs.write.kind = "submit"
    /\ obs.call.output.target = "active"

\* C30: every item the producer puts on the queue is, at the time of the put,
\* not authored by the agent, a text post, and not older than
\* max_post_age_for_replying_hours; and no record of the pending list has the
\* identifier of a post authored by the agent.
OwnPosts == { s.id : s \in { f \in Feed : f.own } }

QueuedPassFilters ==
    /\ [][Len(submission_queue') > Len(submission_queue) =>
            LET s == Last(submission_queue')
            IN  /\ ~ s.own
                /\ s.is_self
                /\ now - s.created_utc
                     <= timedelta(cfg.max_post_age_for_replying_hours)]_vars
    /\ [](\A i \in DOMAIN streamed_submissions :
            streamed_submissions[i].id \notin OwnPosts)

\* A post of another author is pending and one waits in the queue, while the
\* feed had an own post, a link post and a post older than the window to offer
QueuedPassFilters_Witness ==
    /\ cfg.feed = "authored"
    /\ streamed_submissions # << >>
    /\ submission_queue # << >>
    /\ \E s \in Feed : s.own /\ s.created_utc <= now
    /\ \E s \in Feed : ~ s.is_self /\ s.created_utc <= now
    /\ \E s \in Feed :
          s.created_utc < now - timedelta(cfg.max_post_age_for_replying_hours)

\* C31: get_comment_tree applies no threshold to a tree with fewer nodes than
\* the budget, returns every materialized reply of a tree with at most budget
\* nodes (exactly budget included), and returns no replies for a submission
\* without comments.
FittingTreeIsUntouched ==
    pc = "tree_done" =>
        LET max_size == obs.call.input.max_size
            out == obs.call.output
            tree_size == get_tree_size(None, out.comment_tree)
        IN  /\ tree_size < max_size => out.min_score_threshold = None
            /\ tree_size <= max_size => out.replies = out.comment_tree
            /\ out.comment_tree = << >> => out.replies = << >>

\* A tree of exactly budget nodes, one of them scored below the initial low of
\* the search, was searched for a threshold and came back whole
FittingTreeIsUntouched_Witness ==
    /\ pc = "tree_done"
    /\ obs.call.input.max_size >= 2
    /\ get_tree_size(None, obs.call.output.comment_tree) = obs.call.input.max_size
    /\ \E i \in DOMAIN obs.call.input.comments.score :
          obs.call.input.comments.score[i] < 1
    /\ obs.call.output.min_score_threshold # None
    /\ obs.call.output.replies = obs.call.output.comment_tree

\* C36: on every forest with integer scores (negative ones and ones above 500
\* included) get_comment_tree enters the search only when the full tree size
\* is at least the budget, and then the two widening loops and the bisection
\* of find_min_score_threshold end; the value returned is the one that
\* find_min_score_threshold computes.
SearchTerminates ==
    /\ <>(pc \in { "search_done", "search_skipped" })
    /\ [](pc \in { "expand_low", "expand_high", "bisect", "search_done" } =>
            get_tree_size(None, SearchTree) >= obs.call.input.max_size)
    /\ [](pc = "search_done" =>
            obs.call.output.returned =
                Some(find_min_score_threshold(SearchTree, obs.call.input.max_size,
                                              1, 500)))

\* A search that had to widen low twice (down to -746, below the score -300)
\* and then bisect has returned
SearchTerminates_Witness ==
    /\ pc = "search_done"
    /\ obs.call.output.low <= -746
    /\ obs.call.output.mid # 250
    /\ obs.call.output.returned # None

\* C32: in a process started from the empty state, every pending record was
\* created at or before the high-water timestamp, and the high-water timestamp
\* is the greatest of the epoch and the creation times of the items drained so
\* far: it starts at the epoch, a drain raises it to the greatest creation
\* time among it and the items the drain got, and no other step changes it.
GreatestOf(S) == CHOOSE m \in S : \A x \in S : x <= m

WatermarkIsGreatestDrained ==
    /\ until_timestamp = 0
    /\ [][IF pc' # pc /\ obs'.drain.just_drained
          THEN until_timestamp' =
                   GreatestOf({ until_timestamp }
                       \cup { submission_queue[i].created_utc :
                                 i \in DOMAIN submission_queue })
          ELSE until_timestamp' = until_timestamp]_vars
    /\ [](\A i \in DOMAIN streamed_submissions :
            streamed_submissions[i].timestamp <= until_timestamp)

\* A drain got a post created at tick 2 and then one created at tick 1: the
\* watermark is 2, and the older post did not lower it
WatermarkIsGreatestDrained_Witness ==
    /\ obs.drain.just_drained
    /\ pc = "react_inbox"
    /\ Len(obs.drain.consumed) = 2
    /\ obs.drain.consumed[1].created_utc = 2
    /\ obs.drain.consumed[2].created_utc = 1
    /\ until_timestamp = 2
    /\ streamed_submissions # << >>

\* C33: on a feed where each post identifier has one creation time, a record
\* that has left the pending list (removed after the react phase, aged out or
\* trimmed) never has its identifier in the pending list again, although the
\* producer enqueues the post again.
NeverReenters ==
    \A i \in DOMAIN streamed_submissions : streamed_submissions[i].id \notin obs.removed

\* The trim had dropped the record of post 1 from a full pending list; a
\* drain got post 1 again and skipped it
NeverReenters_Witness ==
    /\ cfg.feed = "trim_replay"
    /\ obs.drain.just_drained
    /\ obs.drain.skipped_stale
    /\ Len(obs.drain.consumed) = 1
    /\ obs.drain.consumed[1].id = 1
    /\ 1 \in obs.removed
    /\ Len(streamed_submissions) = max_streamed_submissions
    /\ streamed_submissions[1].id = 2

\* C34: in unattended mode, once the platform has accepted a reply for a
\* pending post, no later react phase handles that post again, whether an
\* exception is raised later in the phase or the process stops and starts
\* again from the state file.
ReactsAtMostOnce ==
    (pc = "react_post" /\ streamed_submissions # << >>) =>
        Last(streamed_submissions).id \notin obs.replied

\* C35: the react phase selects the last pending record, which is the one
\* created latest; until the phase removes a record the selected one stays the
\* last, whatever the producer thread enqueues meanwhile; and the record
\* removed is the selected one.
InPostPart == pc \in { "react_handle", "react_remove" }

RemovesTheSelected ==
    /\ [](InPostPart =>
            /\ streamed_submissions # << >>
            /\ obs.call.input.selected = Last(streamed_submissions)
            /\ \A i \in DOMAIN streamed_submissions :
                  streamed_submissions[i].timestamp <= obs.call.input.selected.timestamp)
    /\ [][(pc = "react_remove" /\ streamed_submissions' # streamed_submissions) =>
             streamed_submissions =
                 Append(streamed_submissions', obs.call.input.selected)]_vars

\* The producer enqueued a post between the selection and the removal, and the
\* removal took the selected record out of a list of two
RemovesTheSelected_Witness ==
    /\ pc = "act"
    /\ obs.result = "returned"
    /\ obs.call.input # << >>
    /\ obs.call.output # << >>
    /\ obs.call.output.removed
    /\ obs.call.output.queued > obs.call.input.queued
    /\ Len(streamed_submissions) = 1
    /\ streamed_submissions[1] # obs.call.input.selected

\* C37: when the account has no submission and the platform answers every
\* call, create_post is available, and CreatePost.execute submits the post and
\* returns `result` when the subreddit is in active_on_subreddits.
NeverPostedCanPost ==
    (pc = "executed" /\ obs.call.input.command.cls = "CreatePost"
        /\ obs.call.input.platform.fault = "none"
        /\ ~ obs.call.input.platform.latest_submission.exists) =>
        /\ obs.call.output.available = Available(TRUE)
        /\ obs.call.input.command.subreddit \in cfg.active_on_subreddits =>
              /\ obs.write.kind = "submit"
              /\ obs.call.output.out.raised = "none"
              /\ DOMAIN obs.call.output.out.map = { "result" }

====
